---- MODULE Spec2Model ----
(***************************************************************************)
(* Model of the game clock of RecursiveNeon:                               *)
(*   backend/src/recursive_neon/services/time_service.py  (TimeService)    *)
(*                                                                         *)
(* Units.  time.monotonic() is modelled in ticks of 1/TickDen microsecond. *)
(* A dilation factor is modelled as an integer number of 1/DilDen, so the  *)
(* float 1.0 is DilDen.  A datetime is a record [wall, off]: its calendar  *)
(* fields as one count of microseconds, and its UTC offset in              *)
(* microseconds; the instant it denotes is wall - off.  A timedelta is a   *)
(* whole number of microseconds, as in Python.  Floats are modelled as     *)
(* exact rationals: the only rounding kept is the one timedelta() applies  *)
(* when it converts a float number of seconds to whole microseconds.       *)
(***************************************************************************)
EXTENDS Integers, Sequences, FiniteSets, TLC

\* ---------------------------------------------------------------- bounds
TickDen == 2        \* ticks of the monotonic clock per microsecond
DilDen == 2         \* dilation units per 1.0
MaxNow == 2         \* the monotonic clock is observed up to this tick
MaxLag == 1         \* ticks that may pass between two clock readings of one call
MaxDil == 3         \* largest dilation argument, in 1/DilDen
MaxDur == 1         \* largest duration argument, in microseconds
MaxTime == 3        \* manual moves keep |game_time| within this window
TzOff == 2          \* the non-zero UTC offset of jump targets
MaxCallbacks == 1   \* subscribers registered at most
MaxObservers == 2   \* observers subscribed where delivery order is examined
MaxHandlers == 2    \* request handlers calling the engine at the same time
MaxSubscribers == 2 \* subscribers of the SettingsService

Den == TickDen * DilDen

Abs(x) == IF x < 0 THEN -x ELSE x

\* ------------------------------------------------------------- datetimes
UTC == 0

DateTime(w, o) == [wall |-> w, off |-> o]

\* The absolute instant of an aware datetime (what == and - compare).
Instant(dt) == dt.wall - dt.off

\* datetime + timedelta keeps the tzinfo and moves the calendar fields.
PlusDelta(dt, delta) == [dt EXCEPT !.wall = @ + delta]

\* datetime.replace(tzinfo=timezone.utc): same calendar fields, new label.
ReplaceTzUtc(dt) == [dt EXCEPT !.off = UTC]

DEFAULT_GAME_TIME == DateTime(0, UTC)

\* datetime.isoformat(): the calendar fields followed by the UTC offset, as
\* the text "YYYY-MM-DDTHH:MM:SS.ffffff+HH:MM" carries them.
isoformat(dt) == <<dt.wall, dt.off>>

\* datetime.fromisoformat() of such a text.
fromisoformat(text) == DateTime(text[1], text[2])

DEFAULT_DILATION == DilDen

\* ------------------------------------------------------------ timedelta
\* n/d rounded to the nearest integer, ties to the even one (d > 0).
RoundHalfEven(n, d) ==
    LET q == n \div d
        r == n % d
    IN  IF 2 * r < d THEN q
        ELSE IF 2 * r > d THEN q + 1
        ELSE IF q % 2 = 0 THEN q ELSE q + 1

\* Variant: the product is truncated to whole microseconds, not rounded.
GameElapsedTruncated(real_elapsed, dilation) == (real_elapsed * dilation) \div Den

\* timedelta(seconds=real_elapsed * time_dilation) in microseconds, for
\* real_elapsed in ticks and time_dilation in 1/DilDen.
GameElapsed(real_elapsed, dilation) == RoundHalfEven(real_elapsed * dilation, Den)

\* ---------------------------------------------------------------- state
VARIABLES
    now,               \* the value time.monotonic() returns, in ticks
    state,             \* TimeService._state
    update_callbacks,  \* TimeService._update_callbacks, as observer ids
    persistence_path,  \* TRUE iff a persistence path is configured
    throwing,          \* the observers whose callback raises when invoked
    disk_ok,           \* TRUE iff writes below persistence_path.parent succeed
    file,              \* <<>> or <<document>>: the file at persistence_path
    tmp,               \* <<>> or <<document>>: the file at temp_path
    delivered,         \* events handed to observers by the latest call
    op,                \* the latest call: its name, arguments and outcome
    mark,              \* a reading of get_current_time() kept for comparison
    handlers,          \* per concurrent caller: the call in progress and its locals
    ledger,            \* what concurrent callers' settlements have credited so far
    response,          \* the latest response of the request facade
    _settings,         \* SettingsService: the stored value of each stored key
    _callbacks,        \* SettingsService: the subscribers, in subscription order
    settings_file,     \* the settings document on disk, <<>> while there is none
    sop                \* the latest SettingsService call and what it did

vars == <<now, state, update_callbacks, persistence_path, throwing, disk_ok, file, tmp,
          delivered, op, mark, handlers, ledger, response,
          _settings, _callbacks, settings_file, sop>>

TimeState(g, d, p, l, pd) ==
    [game_time |-> g, time_dilation |-> d, is_paused |-> p,
     last_real_time |-> l, previous_dilation |-> pd]

NoMark == [valid |-> FALSE, time |-> 0, at |-> 0, settles |-> 0]

\* A call record.  elapsed: the ticks since last_real_time when the call
\* began; credited: what its first settlement added to game_time (settled
\* is the instant of game_time right after that settlement); old_*: the
\* fields the call found; applied: it passed its guards and mutated the
\* state; delta: by how much the whole call moved the instant of game_time.
Call(nm, a, tgt, out, r, settled, applied) ==
    [name |-> nm, arg |-> a, target |-> tgt, outcome |-> out, ret |-> r,
     elapsed |-> now - state.last_real_time,
     credited |-> settled - Instant(state.game_time),
     delta |-> Instant(state'.game_time) - Instant(state.game_time),
     applied |-> applied,
     old_dilation |-> state.time_dilation, old_paused |-> state.is_paused,
     old_previous |-> state.previous_dilation]

NoTarget == DateTime(0, UTC)

\* No concurrent caller, nothing credited by one, no request answered.
NoHandlers == <<>>

NoLedger == {}

NoResponse == [type |-> "none"]

\* Setting values: a str, or None.
Text(s) == [type |-> "str", v |-> s]

None == [type |-> "NoneType", v |-> ""]

\* _register_default_settings, for the keys modelled: the default of each
\* registered key.  register_default stores the default of a key that has
\* no value yet.
DefaultSettings ==
    [key \in {"clock.mode", "clock.position"} |->
        IF key = "clock.mode" THEN Text("digital") ELSE Text("top-right")]

NoSettingsCall ==
    [name |-> "init", entries |-> <<>>, outcome |-> "ok", notified |-> <<>>,
     saved |-> FALSE]

\* An engine method called directly, not through the request facade.
Direct(A) == A /\ UNCHANGED response

\* --------------------------------------------------------- pure helpers
\* Variant: the elapsed interval is taken with the operands swapped.
_update_time_reversed(s, t) ==
    LET real_elapsed == s.last_real_time - t
    IN  [s EXCEPT
          !.game_time = IF ~s.is_paused
                        THEN PlusDelta(@, GameElapsed(real_elapsed, s.time_dilation))
                        ELSE @,
          !.last_real_time = t]

_update_time(s, t) ==
    LET real_elapsed == t - s.last_real_time
    IN  [s EXCEPT
          !.game_time = IF ~s.is_paused
                        THEN PlusDelta(@, GameElapsed(real_elapsed, s.time_dilation))
                        ELSE @,
          !.last_real_time = t]

\* The dictionary get_time_state() returns once the state is settled.
TimeStateDict(s) ==
    [current_time |-> isoformat(s.game_time), time_dilation |-> s.time_dilation,
     is_paused |-> s.is_paused, real_time |-> s.last_real_time]

get_time_dilation == state.time_dilation

is_paused == state.is_paused

\* One invocation callback(event) inside the try block of _notify_change.
Invocation(callback, change_type, s, details) ==
    [to |-> callback, type |-> change_type, state |-> TimeStateDict(s),
     details |-> details, raised |-> callback \in throwing]

\* Variant: no try block, the first exception ends the loop.
RECURSIVE Events_unprotected(_, _, _, _)
Events_unprotected(callbacks, change_type, s, details) ==
    IF callbacks = <<>> THEN <<>>
    ELSE <<Invocation(Head(callbacks), change_type, s, details)>>
         \o (IF Head(callbacks) \in throwing THEN <<>>
             ELSE Events_unprotected(Tail(callbacks), change_type, s, details))

\* Variant: the callbacks are invoked last subscribed first.
RECURSIVE Events_reversed(_, _, _, _)
Events_reversed(callbacks, change_type, s, details) ==
    IF callbacks = <<>> THEN <<>>
    ELSE Events_reversed(Tail(callbacks), change_type, s, details)
         \o <<Invocation(Head(callbacks), change_type, s, details)>>

\* The invocations _notify_change makes: one per callback, in list order,
\* each inside its own try block, so that an exception ends only that one.
RECURSIVE Events(_, _, _, _)
Events(callbacks, change_type, s, details) ==
    IF callbacks = <<>> THEN <<>>
    ELSE <<Invocation(Head(callbacks), change_type, s, details)>>
         \o Events(Tail(callbacks), change_type, s, details)

\* The JSON document save_state writes.
Record(s) ==
    [game_time |-> isoformat(s.game_time), time_dilation |-> s.time_dilation,
     is_paused |-> s.is_paused, previous_dilation |-> s.previous_dilation]

\* What temp_path holds while json.dump has not completed.
PartialDocument == [truncated |-> TRUE]

\* The positions of save_state's file operations: nothing written yet;
\* temp_path opened for writing; the document written and closed; temp_path
\* renamed over persistence_path.
SaveSteps == 0..3

\* Variant: the document is written straight into persistence_path.
FilesAfter_in_place(s, k) ==
    IF k = 0 THEN [file |-> file, tmp |-> tmp]
    ELSE IF k = 1 THEN [file |-> <<PartialDocument>>, tmp |-> tmp]
    ELSE [file |-> <<Record(s)>>, tmp |-> tmp]

\* The two files once save_state, saving the settled state s, has got as
\* far as position k (k = 3: it has completed).
FilesAfter(s, k) ==
    IF k = 0 THEN [file |-> file, tmp |-> tmp]
    ELSE IF k = 1 THEN [file |-> file, tmp |-> <<PartialDocument>>]
    ELSE IF k = 2 THEN [file |-> file, tmp |-> <<Record(s)>>]
    ELSE [file |-> <<Record(s)>>, tmp |-> <<>>]

\* The positions at which save_state's file operations can end: all of them
\* succeed, or one raises OSError, which the except clause swallows.
SaveEnds == IF disk_ok THEN {3} ELSE {0, 1, 2}

\* Variant: the event is built from the state the call found.
NotifyAndSave_stale_event(s, change_type, details, t1, t2) ==
    LET s1 == _update_time(s, t1)
        s2 == IF persistence_path THEN _update_time(s1, t2) ELSE s1
    IN  /\ delivered' = Events(update_callbacks, change_type, state, details)
        /\ state' = s2
        /\ IF persistence_path
           THEN \E k \in SaveEnds : /\ file' = FilesAfter(s2, k).file
                                    /\ tmp' = FilesAfter(s2, k).tmp
           ELSE UNCHANGED <<file, tmp>>
        /\ now' = t2

\* Variant: the record is written before the observers are notified.
NotifyAndSave_save_first(s, change_type, details, t1, t2) ==
    LET s1 == IF persistence_path THEN _update_time(s, t1) ELSE s
        s2 == _update_time(s1, t2)
    IN  /\ delivered' = Events(update_callbacks, change_type, s2, details)
        /\ state' = s2
        /\ IF persistence_path
           THEN \E k \in SaveEnds : /\ file' = FilesAfter(s1, k).file
                                    /\ tmp' = FilesAfter(s1, k).tmp
           ELSE UNCHANGED <<file, tmp>>
        /\ now' = t2

\* Variant: a failed write undoes the call: the fields go back to what they
\* were and the observers hear nothing.
NotifyAndSave_transactional(s, change_type, details, t1, t2) ==
    LET s1 == _update_time(s, t1)
        s2 == IF persistence_path THEN _update_time(s1, t2) ELSE s1
    IN  /\ delivered' = IF persistence_path /\ ~disk_ok THEN <<>>
                        ELSE Events(update_callbacks, change_type, s1, details)
        /\ state' = IF persistence_path /\ ~disk_ok THEN state ELSE s2
        /\ IF persistence_path
           THEN \E k \in SaveEnds : /\ file' = FilesAfter(s2, k).file
                                    /\ tmp' = FilesAfter(s2, k).tmp
           ELSE UNCHANGED <<file, tmp>>
        /\ now' = t2

\* The tail of every mutating call: _notify_change (which settles through
\* get_time_state at t1) and save_state (which settles at t2 when a path is
\* configured).  s is the state the call has produced so far.
NotifyAndSave(s, change_type, details, t1, t2) ==
    LET s1 == _update_time(s, t1)
        s2 == IF persistence_path THEN _update_time(s1, t2) ELSE s1
    IN  /\ delivered' = Events(update_callbacks, change_type, s1, details)
        /\ state' = s2
        /\ IF persistence_path
           THEN \E k \in SaveEnds : /\ file' = FilesAfter(s2, k).file
                                    /\ tmp' = FilesAfter(s2, k).tmp
           ELSE UNCHANGED <<file, tmp>>
        /\ now' = t2

LagChoices == {0, MaxLag}

Lags(l1, l2) ==
    /\ l1 \in LagChoices
    /\ l2 \in LagChoices
    /\ now + l1 + l2 <= MaxNow
    /\ (~persistence_path => l2 = 0)

InWindow(dt) == Abs(dt.wall) <= MaxTime

\* datetime.max, scaled: the last instant a datetime can hold.  It lies
\* beyond every instant reached from targets and durations within MaxTime.
MaxDate == MaxTime + MaxNow + MaxDil + 2

\* ----------------------------------------------------------------- Init
Init ==
    /\ now = 0
    /\ state = TimeState(DEFAULT_GAME_TIME, DEFAULT_DILATION, FALSE, 0, DEFAULT_DILATION)
    /\ update_callbacks = <<>>
    /\ persistence_path \in BOOLEAN
    /\ throwing = {}
    /\ disk_ok = TRUE
    /\ file = <<>>
    /\ tmp = <<>>
    /\ delivered = <<>>
    /\ op = [name |-> "init", arg |-> 0, target |-> NoTarget,
             outcome |-> "ok", ret |-> NoTarget, elapsed |-> 0,
             credited |-> 0, delta |-> 0, applied |-> FALSE,
             old_dilation |-> DEFAULT_DILATION, old_paused |-> FALSE,
             old_previous |-> DEFAULT_DILATION]
    /\ mark = NoMark
    /\ handlers = NoHandlers
    /\ ledger = NoLedger
    /\ response = NoResponse
    /\ _settings = DefaultSettings
    /\ _callbacks = <<>>
    /\ settings_file = <<>>
    /\ sop = NoSettingsCall

\* -------------------------------------------------------------- actions
\* Wall-clock time passes.
Tick ==
    /\ now < MaxNow
    /\ now' = now + 1
    /\ UNCHANGED <<state, update_callbacks, persistence_path, _settings, _callbacks, settings_file, sop, throwing, disk_ok, handlers, ledger, response, file, tmp, delivered, op, mark>>

get_current_time ==
    LET s1 == _update_time(state, now)
        credited == now > state.last_real_time
    IN  /\ state' = s1
        /\ op' = Call("get_current_time", 0, NoTarget, "ok", s1.game_time,
                      Instant(s1.game_time), FALSE)
        /\ mark' = IF mark.valid
                   THEN [mark EXCEPT !.settles = @ + (IF credited THEN 1 ELSE 0)]
                   ELSE [valid |-> TRUE, time |-> Instant(s1.game_time), at |-> now,
                         settles |-> 0]
        /\ delivered' = <<>>
        /\ UNCHANGED <<now, update_callbacks, persistence_path, _settings, _callbacks, settings_file, sop, throwing, disk_ok, handlers, ledger, response, file, tmp>>

\* Variant: get_time_state() also writes the record.
get_time_state_saving ==
    LET s1 == _update_time(state, now)
        credited == now > state.last_real_time
    IN  /\ state' = s1
        /\ op' = Call("get_time_state", 0, NoTarget, "ok", s1.game_time,
                      Instant(s1.game_time), FALSE)
        /\ mark' = IF mark.valid
                   THEN [mark EXCEPT !.settles = @ + (IF credited THEN 1 ELSE 0)]
                   ELSE mark
        /\ delivered' = <<>>
        /\ IF persistence_path
           THEN /\ file' = <<Record(s1)>>
                /\ tmp' = <<>>
           ELSE UNCHANGED <<file, tmp>>
        /\ UNCHANGED <<now, update_callbacks, persistence_path, _settings, _callbacks, settings_file, sop, throwing, disk_ok, handlers, ledger>>

get_time_state ==
    LET s1 == _update_time(state, now)
        credited == now > state.last_real_time
    IN  /\ state' = s1
        /\ op' = Call("get_time_state", 0, NoTarget, "ok", s1.game_time,
                      Instant(s1.game_time), FALSE)
        /\ mark' = IF mark.valid
                   THEN [mark EXCEPT !.settles = @ + (IF credited THEN 1 ELSE 0)]
                   ELSE mark
        /\ delivered' = <<>>
        /\ UNCHANGED <<now, update_callbacks, persistence_path, _settings, _callbacks, settings_file, sop, throwing, disk_ok, handlers, ledger, file, tmp>>

\* Variant: only pause() sets is_paused; set_time_dilation leaves it alone.
WithDilation_not_pausing(s, dilation) ==
    [s EXCEPT !.time_dilation = dilation,
              !.previous_dilation = IF dilation # 0 THEN dilation ELSE @]

\* The fields set_time_dilation assigns once the state is settled.
WithDilation(s, dilation) ==
    [s EXCEPT !.time_dilation = dilation,
              !.is_paused = (dilation = 0),
              !.previous_dilation = IF dilation # 0 THEN dilation ELSE @]

\* Variant: the new dilation is assigned before the elapsed time is settled.
set_time_dilation_retroactive(dilation, l1, l2) ==
    IF dilation < 0
    THEN /\ l1 = 0 /\ l2 = 0
         /\ delivered' = <<>>
         /\ UNCHANGED <<now, state, update_callbacks, persistence_path, _settings, _callbacks, settings_file, sop, throwing, disk_ok, handlers, ledger, file, tmp, mark>>
         /\ op' = Call("set_time_dilation", dilation, NoTarget, "ValueError", NoTarget,
                       Instant(state.game_time), FALSE)
    ELSE LET s1 == _update_time(WithDilation(state, dilation), now)
         IN  /\ Lags(l1, l2)
             /\ NotifyAndSave(s1, "dilation_change",
                              [old_dilation |-> state.time_dilation, new_dilation |-> dilation],
                              now + l1, now + l1 + l2)
             /\ op' = Call("set_time_dilation", dilation, NoTarget, "ok", NoTarget,
                           Instant(s1.game_time), TRUE)
             /\ mark' = NoMark
             /\ UNCHANGED <<update_callbacks, persistence_path, _settings, _callbacks, settings_file, sop, throwing, disk_ok, handlers, ledger>>

\* Variant: previous_dilation follows every accepted argument, zero included.
set_time_dilation_overwriting(dilation, l1, l2) ==
    IF dilation < 0
    THEN /\ l1 = 0 /\ l2 = 0
         /\ delivered' = <<>>
         /\ UNCHANGED <<now, state, update_callbacks, persistence_path, _settings, _callbacks, settings_file, sop, throwing, disk_ok, handlers, ledger, file, tmp, mark>>
         /\ op' = Call("set_time_dilation", dilation, NoTarget, "ValueError", NoTarget,
                       Instant(state.game_time), FALSE)
    ELSE LET s1 == _update_time(state, now)
             s2 == [WithDilation(s1, dilation) EXCEPT !.previous_dilation = dilation]
         IN  /\ Lags(l1, l2)
             /\ NotifyAndSave(s2, "dilation_change",
                              [old_dilation |-> state.time_dilation, new_dilation |-> dilation],
                              now + l1, now + l1 + l2)
             /\ op' = Call("set_time_dilation", dilation, NoTarget, "ok", NoTarget,
                           Instant(s1.game_time), TRUE)
             /\ mark' = NoMark
             /\ UNCHANGED <<update_callbacks, persistence_path, _settings, _callbacks, settings_file, sop, throwing, disk_ok, handlers, ledger>>

\* Variant: the argument is validated only after the state has been settled.
set_time_dilation_late_check(dilation, l1, l2) ==
    LET s1 == _update_time(state, now)
        s2 == WithDilation(s1, dilation)
    IN  IF dilation < 0
        THEN /\ l1 = 0 /\ l2 = 0
             /\ state' = s1
             /\ delivered' = <<>>
             /\ UNCHANGED <<now, update_callbacks, persistence_path, _settings, _callbacks, settings_file, sop, throwing, disk_ok, handlers, ledger, file, tmp, mark>>
             /\ op' = Call("set_time_dilation", dilation, NoTarget, "ValueError", NoTarget,
                           Instant(s1.game_time), FALSE)
        ELSE /\ Lags(l1, l2)
             /\ NotifyAndSave(s2, "dilation_change",
                              [old_dilation |-> state.time_dilation, new_dilation |-> dilation],
                              now + l1, now + l1 + l2)
             /\ op' = Call("set_time_dilation", dilation, NoTarget, "ok", NoTarget,
                           Instant(s1.game_time), TRUE)
             /\ mark' = NoMark
             /\ UNCHANGED <<update_callbacks, persistence_path, _settings, _callbacks, settings_file, sop, throwing, disk_ok, handlers, ledger>>

set_time_dilation(dilation, l1, l2) ==
    IF dilation < 0
    THEN /\ l1 = 0 /\ l2 = 0
         /\ delivered' = <<>>
         /\ UNCHANGED <<now, state, update_callbacks, persistence_path, _settings, _callbacks, settings_file, sop, throwing, disk_ok, handlers, ledger, file, tmp, mark>>
         /\ op' = Call("set_time_dilation", dilation, NoTarget, "ValueError", NoTarget,
                       Instant(state.game_time), FALSE)
    ELSE LET s1 == _update_time(state, now)
             s2 == WithDilation(s1, dilation)
         IN  /\ Lags(l1, l2)
             /\ NotifyAndSave(s2, "dilation_change",
                              [old_dilation |-> state.time_dilation, new_dilation |-> dilation],
                              now + l1, now + l1 + l2)
             /\ op' = Call("set_time_dilation", dilation, NoTarget, "ok", NoTarget,
                           Instant(s1.game_time), TRUE)
             /\ mark' = NoMark
             /\ UNCHANGED <<update_callbacks, persistence_path, _settings, _callbacks, settings_file, sop, throwing, disk_ok, handlers, ledger>>

\* Variant: pause() does not test is_paused.
pause_unguarded(l1, l2) ==
    LET s1 == _update_time(state, now)
        s2 == [s1 EXCEPT !.previous_dilation = s1.time_dilation,
                         !.time_dilation = 0,
                         !.is_paused = TRUE]
    IN  /\ Lags(l1, l2)
        /\ NotifyAndSave(s2, "pause",
                         <<>>,
                         now + l1, now + l1 + l2)
        /\ op' = Call("pause", 0, NoTarget, "ok", NoTarget,
                      Instant(s1.game_time), TRUE)
        /\ mark' = NoMark
        /\ UNCHANGED <<update_callbacks, persistence_path, _settings, _callbacks, settings_file, sop, throwing, disk_ok, handlers, ledger>>

\* Variant: pause() zeroes the dilation before it remembers it.
pause_after_zeroing(l1, l2) ==
    IF ~state.is_paused
    THEN LET s1 == _update_time(state, now)
             s2 == [s1 EXCEPT !.previous_dilation = 0,
                              !.time_dilation = 0,
                              !.is_paused = TRUE]
         IN  /\ Lags(l1, l2)
             /\ NotifyAndSave(s2, "pause",
                              <<>>,
                              now + l1, now + l1 + l2)
             /\ op' = Call("pause", 0, NoTarget, "ok", NoTarget,
                           Instant(s1.game_time), TRUE)
             /\ mark' = NoMark
             /\ UNCHANGED <<update_callbacks, persistence_path, _settings, _callbacks, settings_file, sop, throwing, disk_ok, handlers, ledger>>
    ELSE /\ l1 = 0 /\ l2 = 0
         /\ delivered' = <<>>
         /\ UNCHANGED <<now, state, update_callbacks, persistence_path, _settings, _callbacks, settings_file, sop, throwing, disk_ok, handlers, ledger, file, tmp, mark>>
         /\ op' = Call("pause", 0, NoTarget, "ok", NoTarget,
                       Instant(state.game_time), FALSE)

pause(l1, l2) ==
    IF ~state.is_paused
    THEN LET s1 == _update_time(state, now)
             s2 == [s1 EXCEPT !.previous_dilation = s1.time_dilation,
                              !.time_dilation = 0,
                              !.is_paused = TRUE]
         IN  /\ Lags(l1, l2)
             /\ NotifyAndSave(s2, "pause",
                              <<>>,
                              now + l1, now + l1 + l2)
             /\ op' = Call("pause", 0, NoTarget, "ok", NoTarget,
                           Instant(s1.game_time), TRUE)
             /\ mark' = NoMark
             /\ UNCHANGED <<update_callbacks, persistence_path, _settings, _callbacks, settings_file, sop, throwing, disk_ok, handlers, ledger>>
    ELSE /\ l1 = 0 /\ l2 = 0
         /\ delivered' = <<>>
         /\ UNCHANGED <<now, state, update_callbacks, persistence_path, _settings, _callbacks, settings_file, sop, throwing, disk_ok, handlers, ledger, file, tmp, mark>>
         /\ op' = Call("pause", 0, NoTarget, "ok", NoTarget,
                       Instant(state.game_time), FALSE)

\* Variant: the dilation is restored before the elapsed time is settled.
resume_retroactive(l1, l2) ==
    IF state.is_paused
    THEN LET s1 == _update_time([state EXCEPT !.time_dilation = state.previous_dilation,
                                              !.is_paused = FALSE], now)
         IN  /\ Lags(l1, l2)
             /\ NotifyAndSave(s1, "resume",
                              <<>>,
                              now + l1, now + l1 + l2)
             /\ op' = Call("resume", 0, NoTarget, "ok", NoTarget,
                           Instant(s1.game_time), TRUE)
             /\ mark' = NoMark
             /\ UNCHANGED <<update_callbacks, persistence_path, _settings, _callbacks, settings_file, sop, throwing, disk_ok, handlers, ledger>>
    ELSE /\ l1 = 0 /\ l2 = 0
         /\ delivered' = <<>>
         /\ UNCHANGED <<now, state, update_callbacks, persistence_path, _settings, _callbacks, settings_file, sop, throwing, disk_ok, handlers, ledger, file, tmp, mark>>
         /\ op' = Call("resume", 0, NoTarget, "ok", NoTarget,
                       Instant(state.game_time), FALSE)

\* Variant: resume always returns to the default dilation.
resume_to_default(l1, l2) ==
    IF state.is_paused
    THEN LET s1 == _update_time(state, now)
             s2 == [s1 EXCEPT !.time_dilation = DEFAULT_DILATION,
                              !.is_paused = FALSE]
         IN  /\ Lags(l1, l2)
             /\ NotifyAndSave(s2, "resume",
                              <<>>,
                              now + l1, now + l1 + l2)
             /\ op' = Call("resume", 0, NoTarget, "ok", NoTarget,
                           Instant(s1.game_time), TRUE)
             /\ mark' = NoMark
             /\ UNCHANGED <<update_callbacks, persistence_path, _settings, _callbacks, settings_file, sop, throwing, disk_ok, handlers, ledger>>
    ELSE /\ l1 = 0 /\ l2 = 0
         /\ delivered' = <<>>
         /\ UNCHANGED <<now, state, update_callbacks, persistence_path, _settings, _callbacks, settings_file, sop, throwing, disk_ok, handlers, ledger, file, tmp, mark>>
         /\ op' = Call("resume", 0, NoTarget, "ok", NoTarget,
                       Instant(state.game_time), FALSE)

resume(l1, l2) ==
    IF state.is_paused
    THEN LET s1 == _update_time(state, now)
             s2 == [s1 EXCEPT !.time_dilation = s1.previous_dilation,
                              !.is_paused = FALSE]
         IN  /\ Lags(l1, l2)
             /\ NotifyAndSave(s2, "resume",
                              <<>>,
                              now + l1, now + l1 + l2)
             /\ op' = Call("resume", 0, NoTarget, "ok", NoTarget,
                           Instant(s1.game_time), TRUE)
             /\ mark' = NoMark
             /\ UNCHANGED <<update_callbacks, persistence_path, _settings, _callbacks, settings_file, sop, throwing, disk_ok, handlers, ledger>>
    ELSE /\ l1 = 0 /\ l2 = 0
         /\ delivered' = <<>>
         /\ UNCHANGED <<now, state, update_callbacks, persistence_path, _settings, _callbacks, settings_file, sop, throwing, disk_ok, handlers, ledger, file, tmp, mark>>
         /\ op' = Call("resume", 0, NoTarget, "ok", NoTarget,
                       Instant(state.game_time), FALSE)

\* Variant: a jump also puts the dilation back to the default.
jump_to_at_default_rate(target_time, l1, l2) ==
    LET s1 == _update_time(state, now)
        s2 == [s1 EXCEPT !.game_time = ReplaceTzUtc(target_time),
                         !.time_dilation = DEFAULT_DILATION]
    IN  /\ Lags(l1, l2)
        /\ NotifyAndSave(s2, "manual_jump",
                         [old_time |-> isoformat(s1.game_time), new_time |-> isoformat(s2.game_time)],
                         now + l1, now + l1 + l2)
        /\ op' = Call("jump_to", 0, target_time, "ok", NoTarget,
                      Instant(s1.game_time), TRUE)
        /\ mark' = NoMark
        /\ UNCHANGED <<update_callbacks, persistence_path, _settings, _callbacks, settings_file, sop, throwing, disk_ok, handlers, ledger>>

jump_to(target_time, l1, l2) ==
    LET s1 == _update_time(state, now)
        s2 == [s1 EXCEPT !.game_time = ReplaceTzUtc(target_time)]
    IN  /\ Lags(l1, l2)
        /\ NotifyAndSave(s2, "manual_jump",
                         [old_time |-> isoformat(s1.game_time), new_time |-> isoformat(s2.game_time)],
                         now + l1, now + l1 + l2)
        /\ op' = Call("jump_to", 0, target_time, "ok", NoTarget,
                      Instant(s1.game_time), TRUE)
        /\ mark' = NoMark
        /\ UNCHANGED <<update_callbacks, persistence_path, _settings, _callbacks, settings_file, sop, throwing, disk_ok, handlers, ledger>>

advance(duration, l1, l2) ==
    LET s1 == _update_time(state, now)
        s2 == [s1 EXCEPT !.game_time = PlusDelta(@, duration)]
    IN  /\ Lags(l1, l2)
        /\ InWindow(s2.game_time)
        /\ NotifyAndSave(s2, "manual_advance",
                         [duration |-> duration],
                         now + l1, now + l1 + l2)
        /\ op' = Call("advance", duration, NoTarget, "ok", NoTarget,
                      Instant(s1.game_time), TRUE)
        /\ mark' = NoMark
        /\ UNCHANGED <<update_callbacks, persistence_path, _settings, _callbacks, settings_file, sop, throwing, disk_ok, handlers, ledger>>

\* Variant: rewind adds the duration.
rewind_forward(duration, l1, l2) ==
    LET s1 == _update_time(state, now)
        s2 == [s1 EXCEPT !.game_time = PlusDelta(@, duration)]
    IN  /\ Lags(l1, l2)
        /\ InWindow(s2.game_time)
        /\ NotifyAndSave(s2, "manual_rewind",
                         [duration |-> duration],
                         now + l1, now + l1 + l2)
        /\ op' = Call("rewind", duration, NoTarget, "ok", NoTarget,
                      Instant(s1.game_time), TRUE)
        /\ mark' = NoMark
        /\ UNCHANGED <<update_callbacks, persistence_path, _settings, _callbacks, settings_file, sop, throwing, disk_ok, handlers, ledger>>

rewind(duration, l1, l2) ==
    LET s1 == _update_time(state, now)
        s2 == [s1 EXCEPT !.game_time = PlusDelta(@, -duration)]
    IN  /\ Lags(l1, l2)
        /\ InWindow(s2.game_time)
        /\ NotifyAndSave(s2, "manual_rewind",
                         [duration |-> duration],
                         now + l1, now + l1 + l2)
        /\ op' = Call("rewind", duration, NoTarget, "ok", NoTarget,
                      Instant(s1.game_time), TRUE)
        /\ mark' = NoMark
        /\ UNCHANGED <<update_callbacks, persistence_path, _settings, _callbacks, settings_file, sop, throwing, disk_ok, handlers, ledger>>

\* Variant: previous_dilation survives the reset.
reset_to_default_keeping_previous(l1, l2) ==
    LET s2 == TimeState(DEFAULT_GAME_TIME, DEFAULT_DILATION, FALSE, now,
                        state.previous_dilation)
    IN  /\ Lags(l1, l2)
        /\ NotifyAndSave(s2, "reset", <<>>, now + l1, now + l1 + l2)
        /\ op' = Call("reset_to_default", 0, NoTarget, "ok", NoTarget,
                      Instant(state.game_time), TRUE)
        /\ mark' = NoMark
        /\ UNCHANGED <<update_callbacks, persistence_path, _settings, _callbacks, settings_file, sop, throwing, disk_ok, handlers, ledger, response>>

reset_to_default(l1, l2) ==
    LET s2 == TimeState(DEFAULT_GAME_TIME, DEFAULT_DILATION, FALSE, now, DEFAULT_DILATION)
    IN  /\ Lags(l1, l2)
        /\ NotifyAndSave(s2, "reset",
                         <<>>,
                         now + l1, now + l1 + l2)
        /\ op' = Call("reset_to_default", 0, NoTarget, "ok", NoTarget,
                      Instant(state.game_time), TRUE)
        /\ mark' = NoMark
        /\ UNCHANGED <<update_callbacks, persistence_path, _settings, _callbacks, settings_file, sop, throwing, disk_ok, handlers, ledger, response>>

save_state ==
    LET s1 == _update_time(state, now)
        credited == now > state.last_real_time
    IN  /\ state' = IF persistence_path THEN s1 ELSE state
        /\ op' = Call("save_state", 0, NoTarget, "ok", NoTarget,
                      Instant(IF persistence_path THEN s1.game_time ELSE state.game_time),
                      FALSE)
        /\ IF persistence_path
           THEN \E k \in SaveEnds : /\ file' = FilesAfter(s1, k).file
                                    /\ tmp' = FilesAfter(s1, k).tmp
           ELSE UNCHANGED <<file, tmp>>
        /\ mark' = IF mark.valid /\ persistence_path
                   THEN [mark EXCEPT !.settles = @ + (IF credited THEN 1 ELSE 0)]
                   ELSE mark
        /\ delivered' = <<>>
        /\ UNCHANGED <<now, update_callbacks, persistence_path, _settings, _callbacks, settings_file, sop, throwing, disk_ok, handlers, ledger, response>>

\* dict.get(key, default)
DictGet(data, key, default) == IF key \in DOMAIN data THEN data[key] ELSE default

\* A game_time text datetime.fromisoformat rejects.
MalformedText == <<>>

\* json.load accepts the document, the keys load_state indexes are there and
\* fromisoformat accepts the game_time text.
Parses(data) ==
    /\ {"game_time", "time_dilation", "is_paused"} \subseteq DOMAIN data
    /\ data.game_time # MalformedText

\* Variant: previous_dilation is not read back.
Loaded_without_previous(s, data, t) ==
    [s EXCEPT !.game_time = fromisoformat(data.game_time),
              !.time_dilation = data.time_dilation,
              !.is_paused = data.is_paused,
              !.previous_dilation = DEFAULT_DILATION,
              !.last_real_time = t]

\* Variant: load_state does not stamp last_real_time.
Loaded_keeping_last_real_time(s, data, t) ==
    [s EXCEPT !.game_time = fromisoformat(data.game_time),
              !.time_dilation = data.time_dilation,
              !.is_paused = data.is_paused,
              !.previous_dilation = DictGet(data, "previous_dilation", DEFAULT_DILATION)]

\* The assignments of load_state from a parsed record.
Loaded(s, data, t) ==
    [s EXCEPT !.game_time = fromisoformat(data.game_time),
              !.time_dilation = data.time_dilation,
              !.is_paused = data.is_paused,
              !.previous_dilation = DictGet(data, "previous_dilation", DEFAULT_DILATION),
              !.last_real_time = t]

\* load_state's try block on a document: the assignments made before the
\* first statement that raises stay; the exception is re-raised.
LoadAttempt(s, data, t) ==
    IF "game_time" \notin DOMAIN data \/ data.game_time = MalformedText
    THEN [state |-> s, raised |-> TRUE]
    ELSE IF "time_dilation" \notin DOMAIN data
    THEN [state |-> [s EXCEPT !.game_time = fromisoformat(data.game_time)],
          raised |-> TRUE]
    ELSE IF "is_paused" \notin DOMAIN data
    THEN [state |-> [s EXCEPT !.game_time = fromisoformat(data.game_time),
                              !.time_dilation = data.time_dilation],
          raised |-> TRUE]
    ELSE [state |-> Loaded(s, data, t), raised |-> FALSE]

\* load_state on the engine as it finds the file.
LoadFrom(s, t) ==
    IF persistence_path /\ file # <<>>
    THEN LoadAttempt(s, file[1], t)
    ELSE [state |-> s, raised |-> FALSE]

load_state ==
    /\ state' = LoadFrom(state, now).state
    /\ op' = Call("load_state", 0, NoTarget,
                  IF LoadFrom(state, now).raised THEN "raised" ELSE "ok", NoTarget,
                  Instant(state.game_time), persistence_path /\ file # <<>>)
    /\ mark' = NoMark
    /\ delivered' = <<>>
    /\ UNCHANGED <<now, update_callbacks, persistence_path, _settings, _callbacks, settings_file, sop, throwing, disk_ok, handlers, ledger, response, file, tmp>>

\* The state a new TimeService starts from.
Defaults(t) ==
    TimeState(DEFAULT_GAME_TIME, DEFAULT_DILATION, FALSE, t, DEFAULT_DILATION)

\* TimeService(persistence_path): the defaults, then load_state() with its
\* exception logged and dropped.
Constructed(t) == LoadFrom(Defaults(t), t).state

\* A process start: TimeService(persistence_path) followed by the factory's
\* load_state(), whose exception ends create_production_container.
Restart ==
    LET started == LoadFrom(Constructed(now), now)
    IN  /\ state' = started.state
        /\ update_callbacks' = <<>>
        /\ op' = Call("restart", 0, NoTarget,
                      IF started.raised THEN "raised" ELSE "ok", NoTarget,
                      Instant(state.game_time), TRUE)
        /\ mark' = NoMark
        /\ delivered' = <<>>
        /\ UNCHANGED <<now, persistence_path, _settings, _callbacks, settings_file, sop, throwing, disk_ok, handlers, ledger, response, file, tmp>>

subscribe ==
    /\ Len(update_callbacks) < MaxCallbacks
    /\ update_callbacks' = Append(update_callbacks, Len(update_callbacks) + 1)
    /\ delivered' = <<>>
    /\ UNCHANGED <<now, state, persistence_path, _settings, _callbacks, settings_file, sop, throwing, disk_ok, handlers, ledger, response, file, tmp, mark>>
    /\ op' = Call("subscribe", 0, NoTarget, "ok", NoTarget,
                  Instant(state.game_time), FALSE)

\* ------------------------------------------------------ input domains
Dilations == {-1, 0, 1, DilDen, MaxDil}

Durations == {-1, 0, MaxDur}

Targets == {DateTime(-MaxTime, UTC), DateTime(MaxTime, UTC), DateTime(1, TzOff)}

Next ==
    \/ Tick
    \/ get_current_time
    \/ Direct(get_time_state)
    \/ \E d \in Dilations, l1, l2 \in LagChoices : Direct(set_time_dilation(d, l1, l2))
    \/ \E l1, l2 \in LagChoices : Direct(pause(l1, l2))
    \/ \E l1, l2 \in LagChoices : Direct(resume(l1, l2))
    \/ \E t \in Targets, l1, l2 \in LagChoices : Direct(jump_to(t, l1, l2))
    \/ \E d \in Durations, l1, l2 \in LagChoices : Direct(advance(d, l1, l2))
    \/ \E d \in Durations, l1, l2 \in LagChoices : Direct(rewind(d, l1, l2))
    \/ \E l1, l2 \in LagChoices : reset_to_default(l1, l2)
    \/ save_state
    \/ load_state
    \/ Restart
    \/ subscribe

Spec == Init /\ [][Next]_vars

\* ------------------------------------------- records not written by the engine
\* Well-formed JSON documents with the keys load_state requires, whose values
\* no save_state call produced (an edited or foreign file).
ForeignRecords ==
    {[game_time |-> isoformat(DEFAULT_GAME_TIME), time_dilation |-> -1,
      is_paused |-> FALSE],
     [game_time |-> isoformat(DEFAULT_GAME_TIME), time_dilation |-> DilDen,
      is_paused |-> TRUE]}

\* The file at persistence_path is replaced from outside the engine.
ExternalWrite ==
    /\ persistence_path
    /\ \E r \in ForeignRecords : file' = <<r>>
    /\ UNCHANGED <<now, state, update_callbacks, persistence_path, _settings, _callbacks, settings_file, sop, throwing, disk_ok, handlers, ledger, response, tmp,
                   delivered, op, mark>>

NextRec == Next \/ ExternalWrite

SpecRec == Init /\ [][NextRec]_vars

\* ------------------------------------- failing observers, disk and process
\* The storage below persistence_path starts or stops failing.
DiskFault ==
    /\ persistence_path
    /\ disk_ok' = ~disk_ok
    /\ UNCHANGED <<now, state, update_callbacks, persistence_path, _settings, _callbacks, settings_file, sop, throwing, file, tmp,
                   delivered, op, mark, handlers, ledger, response>>

\* The process is killed while save_state is at position k of its file
\* operations, and is started again: TimeService(persistence_path) followed
\* by the factory's load_state(), reading what the killed process left.
CrashInSave(k) ==
    LET s1 == _update_time(state, now)
        left == FilesAfter(s1, k)
        s0 == Defaults(now)
    IN  /\ persistence_path
        /\ disk_ok
        /\ file' = left.file
        /\ tmp' = left.tmp
        /\ state' = IF left.file # <<>> /\ Parses(left.file[1])
                    THEN Loaded(Loaded(s0, left.file[1], now), left.file[1], now)
                    ELSE s0
        /\ update_callbacks' = <<>>
        /\ op' = Call("crash", k, NoTarget, "ok", NoTarget,
                      Instant(s1.game_time), TRUE)
        /\ mark' = NoMark
        /\ delivered' = <<>>
        /\ UNCHANGED <<now, persistence_path, _settings, _callbacks, settings_file, sop, throwing, disk_ok, handlers, ledger, response>>

\* Two observers subscribed, any of which may be one that raises.
InitObs ==
    /\ now = 0
    /\ state = TimeState(DEFAULT_GAME_TIME, DEFAULT_DILATION, FALSE, 0, DEFAULT_DILATION)
    /\ update_callbacks = [i \in 1..MaxObservers |-> i]
    /\ persistence_path = TRUE
    /\ throwing \in SUBSET (1..MaxObservers)
    /\ disk_ok = TRUE
    /\ file = <<>>
    /\ tmp = <<>>
    /\ delivered = <<>>
    /\ op = [name |-> "subscribe", arg |-> 0, target |-> NoTarget,
             outcome |-> "ok", ret |-> NoTarget, elapsed |-> 0,
             credited |-> 0, delta |-> 0, applied |-> FALSE,
             old_dilation |-> DEFAULT_DILATION, old_paused |-> FALSE,
             old_previous |-> DEFAULT_DILATION]
    /\ mark = NoMark
    /\ handlers = NoHandlers
    /\ ledger = NoLedger
    /\ response = NoResponse
    /\ _settings = DefaultSettings
    /\ _callbacks = <<>>
    /\ settings_file = <<>>
    /\ sop = NoSettingsCall

DilationsObs == {-1, 0, MaxDil}

DurationsObs == {MaxDur}

TargetsObs == {DateTime(MaxTime, UTC)}

NextObs ==
    \/ Tick
    \/ \E d \in DilationsObs, l1, l2 \in LagChoices : Direct(set_time_dilation(d, l1, l2))
    \/ \E l1, l2 \in LagChoices : Direct(pause(l1, l2))
    \/ \E l1, l2 \in LagChoices : Direct(resume(l1, l2))
    \/ \E t \in TargetsObs, l1, l2 \in LagChoices : Direct(jump_to(t, l1, l2))
    \/ \E d \in DurationsObs, l1, l2 \in LagChoices : Direct(advance(d, l1, l2))
    \/ \E d \in DurationsObs, l1, l2 \in LagChoices : Direct(rewind(d, l1, l2))
    \/ \E l1, l2 \in LagChoices : reset_to_default(l1, l2)

SpecObs == InitObs /\ [][NextObs]_vars

\* A persistence path is configured; the disk may fail and the process may
\* be killed.
InitDisk == Init /\ persistence_path

DilationsDisk == {0, MaxDil}

NextDisk ==
    \/ Tick
    \/ \E d \in DilationsDisk, l1, l2 \in LagChoices : Direct(set_time_dilation(d, l1, l2))
    \/ \E l1, l2 \in LagChoices : Direct(pause(l1, l2))
    \/ \E l1, l2 \in LagChoices : Direct(resume(l1, l2))
    \/ \E l1, l2 \in LagChoices : reset_to_default(l1, l2)
    \/ save_state
    \/ subscribe
    \/ DiskFault
    \/ \E k \in SaveSteps : CrashInSave(k)

SpecDisk == InitDisk /\ [][NextDisk]_vars

\* ------------------------------------------------ the end of the calendar
\* The addition in _update_time stays within datetime.max.
SettlesInRange == Instant(_update_time(state, now).game_time) <= MaxDate

\* The calls that settle first on a running clock.
SettlingCalls == {"get_current_time", "get_time_state", "set_time_dilation",
                  "pause", "jump_to"}

\* A call whose settlement passes datetime.max: game_time += timedelta(...)
\* raises OverflowError before anything is assigned, and no method catches it.
Overflow(nm, a) ==
    /\ ~SettlesInRange
    /\ delivered' = <<>>
    /\ UNCHANGED <<now, state, update_callbacks, persistence_path, _settings, _callbacks, settings_file, sop, throwing, disk_ok, handlers, ledger, file, tmp, mark>>
    /\ op' = Call(nm, a, NoTarget, "OverflowError", NoTarget,
                  Instant(state.game_time), FALSE)

DilationsRange == {-1, 0, MaxDil}

TargetsRange == {DEFAULT_GAME_TIME, DateTime(MaxDate, UTC)}

\* Calls follow one another with the clock advancing between them.
NextRange ==
    \/ Tick
    \/ SettlesInRange /\ get_current_time
    \/ SettlesInRange /\ Direct(get_time_state)
    \/ \E d \in DilationsRange : (d < 0 \/ SettlesInRange) /\ Direct(set_time_dilation(d, 0, 0))
    \/ SettlesInRange /\ Direct(pause(0, 0))
    \/ Direct(resume(0, 0))
    \/ \E t \in TargetsRange : SettlesInRange /\ Direct(jump_to(t, 0, 0))
    \/ reset_to_default(0, 0)
    \/ \E nm \in SettlingCalls :
          Direct(Overflow(nm, IF nm = "set_time_dilation" THEN MaxDil ELSE 0))

SpecRange == Init /\ [][NextRange]_vars

\* ------------------------------------------------------ the request facade
\* data.get("value"): missing, a number, or a JSON string.
Absent == [kind |-> "absent", n |-> 0]

Number(n) == [kind |-> "number", n |-> n]

NonNumeric == [kind |-> "text", n |-> 0]

\* data.get("target_time"): missing, or a string.
NoTargetTime == [kind |-> "absent", text |-> MalformedText]

TargetTime(text) == [kind |-> "text", text |-> text]

\* The data of a message of type "time".  action "None": no action key.
Request(action, value, target_time) ==
    [action |-> action, value |-> value, target_time |-> target_time]

TimeActions == {"get_time", "set_dilation", "pause", "resume", "jump_to",
                "advance", "rewind"}

\* _create_error_response(message)
ErrorResponse(data, message) ==
    [request |-> data, type |-> "error", message |-> message]

\* Variant: the exception leaves the handler.
Caught_reraised(data, e) ==
    [request |-> data, type |-> "raised", message |-> e]

\* except Exception as e: return self._create_error_response(str(e))
Caught(data, e) == ErrorResponse(data, e)

\* {"type": ..., "data": self.time_service.get_time_state()}
TimeResponse(data, type, s) ==
    [request |-> data, type |-> type, data |-> TimeStateDict(s), message |-> ""]

\* Variant: a missing value is taken as 0 and a missing target_time as the
\* default start.
Reply_defaulting(data) ==
    LET v == data.value
    IN  IF data.action \notin TimeActions
        THEN ErrorResponse(data, "Unknown time action")
        ELSE IF data.action = "set_dilation" /\ v.kind = "text"
        THEN Caught(data, "TypeError")
        ELSE IF data.action = "set_dilation" /\ v.n < 0
        THEN ErrorResponse(data, "Invalid dilation value")
        ELSE IF data.action = "jump_to" /\ data.target_time.kind = "text"
                /\ data.target_time.text = MalformedText
        THEN Caught(data, "ValueError")
        ELSE IF data.action \in {"advance", "rewind"} /\ v.kind = "text"
        THEN Caught(data, "TypeError")
        ELSE NoResponse

\* The response of a request that does not reach the engine, or NoResponse:
\* the presence checks, the comparison value < 0 (a TypeError for a
\* string), fromisoformat (a ValueError) and timedelta(seconds=...) (a
\* TypeError for a string), in the order of the handler's branches.
Reply(data) ==
    LET v == data.value
    IN  IF data.action \notin TimeActions
        THEN ErrorResponse(data, "Unknown time action")
        ELSE IF data.action = "set_dilation" /\ v.kind = "absent"
        THEN ErrorResponse(data, "Invalid dilation value")
        ELSE IF data.action = "set_dilation" /\ v.kind = "text"
        THEN Caught(data, "TypeError")
        ELSE IF data.action = "set_dilation" /\ v.n < 0
        THEN ErrorResponse(data, "Invalid dilation value")
        ELSE IF data.action = "jump_to" /\ data.target_time.kind = "absent"
        THEN ErrorResponse(data, "Missing target_time")
        ELSE IF data.action = "jump_to" /\ data.target_time.text = MalformedText
        THEN Caught(data, "ValueError")
        ELSE IF data.action \in {"advance", "rewind"} /\ v.kind = "absent"
        THEN ErrorResponse(data, "Missing duration")
        ELSE IF data.action \in {"advance", "rewind"} /\ v.kind = "text"
        THEN Caught(data, "TypeError")
        ELSE NoResponse

\* The engine calls of a branch of the handler: the method, then
\* get_time_state().  pause() on a paused clock and resume() on a running
\* one return at once, which leaves the get_time_state() call.
EngineCalls(data) ==
    LET target == IF data.target_time.kind = "text"
                     /\ data.target_time.text # MalformedText
                  THEN fromisoformat(data.target_time.text)
                  ELSE DEFAULT_GAME_TIME
        n == IF data.value.kind = "number" THEN data.value.n ELSE 0
    IN  \/ data.action = "get_time" /\ get_time_state
        \/ data.action = "set_dilation" /\ set_time_dilation(n, 0, 0)
        \/ data.action = "pause" /\ ~state.is_paused /\ pause(0, 0)
        \/ data.action = "pause" /\ state.is_paused /\ get_time_state
        \/ data.action = "resume" /\ state.is_paused /\ resume(0, 0)
        \/ data.action = "resume" /\ ~state.is_paused /\ get_time_state
        \/ data.action = "jump_to" /\ jump_to(target, 0, 0)
        \/ data.action = "advance" /\ advance(n, 0, 0)
        \/ data.action = "rewind" /\ rewind(n, 0, 0)

\* MessageHandler.handle_message("time", data): one request, answered.
_handle_time_operation(data) ==
    IF Reply(data) # NoResponse
    THEN /\ response' = Reply(data)
         /\ delivered' = <<>>
         /\ UNCHANGED <<now, state, update_callbacks, persistence_path, _settings, _callbacks, settings_file, sop, throwing,
                        disk_ok, handlers, ledger, file, tmp, op, mark>>
    ELSE IF ~SettlesInRange
    THEN /\ Overflow(data.action, 0)
         /\ response' = Caught(data, "date value out of range")
    ELSE /\ EngineCalls(data)
         /\ response' = TimeResponse(data,
                                     IF data.action = "get_time"
                                     THEN "time_response" ELSE "time_update",
                                     state')

FacadeValues == {Absent, NonNumeric, Number(-1), Number(0), Number(MaxDur)}

FacadeTargets == {NoTargetTime, TargetTime(MalformedText),
                  TargetTime(isoformat(DEFAULT_GAME_TIME)),
                  TargetTime(isoformat(DateTime(MaxDate, UTC)))}

\* Requests with and without the fields their action reads.
Requests ==
    {Request(a, Absent, NoTargetTime) : a \in TimeActions \cup {"None", "bogus"}}
        \cup {Request(a, v, NoTargetTime) :
                 a \in {"set_dilation", "advance", "rewind"}, v \in FacadeValues}
        \cup {Request("jump_to", Absent, tt) : tt \in FacadeTargets}

NextFacade ==
    \/ Tick
    \/ subscribe
    \/ \E data \in Requests : _handle_time_operation(data)

SpecFacade == Init /\ [][NextFacade]_vars

\* ------------------------------------------------- concurrent handlers
\* Request handlers calling the one engine, each call taken statement by
\* statement.  The engine holds no lock: nothing in TimeService orders two
\* calls.  A handler's locals: the call, the statement it is at, which
\* settlement of the call it is in (the call's own, get_time_state()'s for
\* the event, save_state's), current_real_time, real_elapsed, the state it
\* read for the event or the record, and where the file it holds open for
\* writing now is: at temp_path, at persistence_path once another handler
\* has renamed it there, or nowhere once a later rename has replaced it.
Callers == 1..MaxHandlers

NoSnapshot == Defaults(0)

Idle == [call |-> "none", pc |-> "idle", stage |-> "none", t |-> 0, e |-> 0,
         snap |-> NoSnapshot, fd |-> "none"]

HandlerCalls == {"get_time_state", "pause", "resume"}

InitHandlers ==
    /\ now = 0
    /\ state = Defaults(0)
    /\ update_callbacks = <<1>>
    /\ persistence_path = TRUE
    /\ throwing = {}
    /\ disk_ok = TRUE
    /\ file = <<>>
    /\ tmp = <<>>
    /\ delivered = <<>>
    /\ op = [name |-> "subscribe", arg |-> 0, target |-> NoTarget,
             outcome |-> "ok", ret |-> NoTarget, elapsed |-> 0,
             credited |-> 0, delta |-> 0, applied |-> FALSE,
             old_dilation |-> DEFAULT_DILATION, old_paused |-> FALSE,
             old_previous |-> DEFAULT_DILATION]
    /\ mark = NoMark
    /\ handlers = [h \in Callers |-> Idle]
    /\ ledger = NoLedger
    /\ response = NoResponse
    /\ _settings = DefaultSettings
    /\ _callbacks = <<>>
    /\ settings_file = <<>>
    /\ sop = NoSettingsCall

\* The handler enters a method.  pause() on a paused clock and resume() on
\* a running one return at once.
Begin(h, call) ==
    /\ handlers[h].pc = "idle"
    /\ call = "pause" => ~state.is_paused
    /\ call = "resume" => state.is_paused
    /\ handlers' = [handlers EXCEPT ![h] =
                       [Idle EXCEPT !.call = call, !.pc = "clock", !.stage = "settle"]]
    /\ UNCHANGED <<now, state, update_callbacks, persistence_path, _settings, _callbacks, settings_file, sop, throwing, disk_ok,
                   file, tmp, delivered, op, mark, ledger, response>>

\* current_real_time = time.monotonic()
\* real_elapsed = current_real_time - self._state.last_real_time
ReadClock(h) ==
    /\ handlers[h].pc = "clock"
    /\ handlers' = [handlers EXCEPT ![h].t = now,
                                    ![h].e = now - state.last_real_time,
                                    ![h].pc = "add"]
    /\ UNCHANGED <<now, state, update_callbacks, persistence_path, _settings, _callbacks, settings_file, sop, throwing, disk_ok,
                   file, tmp, delivered, op, mark, ledger, response>>

\* if not is_paused: game_time += timedelta(seconds=real_elapsed * time_dilation)
\* The ledger notes the wall-clock interval the addition stands for.
AddElapsed(h) ==
    LET me == handlers[h]
    IN  /\ me.pc = "add"
        /\ state' = IF state.is_paused THEN state
                    ELSE [state EXCEPT !.game_time =
                             PlusDelta(@, GameElapsed(me.e, state.time_dilation))]
        /\ ledger' = IF ~state.is_paused /\ me.e # 0
                     THEN ledger \cup {<<me.t - me.e, me.t>>}
                     ELSE ledger
        /\ handlers' = [handlers EXCEPT ![h].pc = "stamp"]
        /\ UNCHANGED <<now, update_callbacks, persistence_path, _settings, _callbacks, settings_file, sop, throwing, disk_ok,
                       file, tmp, delivered, op, mark, response>>

\* self._state.last_real_time = current_real_time, and what follows the
\* settlement: the return of a read, the field assignments of a mutation,
\* the event built from the state, or the document built from it.
Stamp(h) ==
    LET me == handlers[h]
        s1 == [state EXCEPT !.last_real_time = me.t]
    IN  /\ me.pc = "stamp"
        /\ state' = s1
        /\ handlers' = [handlers EXCEPT ![h] =
               IF me.stage = "settle"
               THEN IF me.call = "get_time_state" THEN Idle
                    ELSE [me EXCEPT !.pc = "assign"]
               ELSE IF me.stage = "event"
               THEN [me EXCEPT !.pc = "callbacks", !.snap = s1]
               ELSE [me EXCEPT !.pc = "open", !.snap = s1]]
        /\ UNCHANGED <<now, update_callbacks, persistence_path, _settings, _callbacks, settings_file, sop, throwing, disk_ok,
                       file, tmp, delivered, op, mark, ledger, response>>

\* The assignments of pause() and resume() after their settlement; then
\* _notify_change calls get_time_state().
Assign(h) ==
    LET me == handlers[h]
    IN  /\ me.pc = "assign"
        /\ state' = IF me.call = "pause"
                    THEN [state EXCEPT !.previous_dilation = state.time_dilation,
                                       !.time_dilation = 0,
                                       !.is_paused = TRUE]
                    ELSE [state EXCEPT !.time_dilation = state.previous_dilation,
                                       !.is_paused = FALSE]
        /\ handlers' = [handlers EXCEPT ![h].pc = "clock", ![h].stage = "event"]
        /\ UNCHANGED <<now, update_callbacks, persistence_path, _settings, _callbacks, settings_file, sop, throwing, disk_ok,
                       file, tmp, delivered, op, mark, ledger, response>>

\* for callback in self._update_callbacks: callback(event); then save_state().
Callbacks(h) ==
    LET me == handlers[h]
    IN  /\ me.pc = "callbacks"
        /\ delivered' = Events(update_callbacks, me.call, me.snap, <<>>)
        /\ handlers' = [handlers EXCEPT ![h].pc = "clock", ![h].stage = "save"]
        /\ UNCHANGED <<now, state, update_callbacks, persistence_path, _settings, _callbacks, settings_file, sop, throwing,
                       disk_ok, file, tmp, op, mark, ledger, response>>

\* What a file holds when a document was written from its start over a
\* longer document: the new text followed by the tail of the old one.
MixedDocument == [mixed |-> TRUE]

\* The documents json.dump and the close can leave in a file that held old
\* when the buffered text of data is written from offset 0.  Over the empty
\* file that open left, the text; over the text another handler wrote
\* through the same file since, the text when it is at least as long and a
\* mix when it is shorter (the lengths depend on the digits of the values,
\* which the model does not carry: both outcomes).
Written(old, data) ==
    IF old = <<PartialDocument>> \/ old = <<data>> THEN {<<data>>}
    ELSE {<<data>>, <<MixedDocument>>}

\* open(temp_path, 'w'): creates the file, or empties the one that is there
\* (the file other handlers may still hold open).
OpenTemp(h) ==
    /\ handlers[h].pc = "open"
    /\ tmp' = <<PartialDocument>>
    /\ handlers' = [handlers EXCEPT ![h].pc = "dump", ![h].fd = "tmp"]
    /\ UNCHANGED <<now, state, update_callbacks, persistence_path, _settings, _callbacks, settings_file, sop, throwing, disk_ok,
                   file, delivered, op, mark, ledger, response>>

\* json.dump(data, f) and the close of the with block: the text goes into
\* the file the handler opened, wherever that file is by now.
Dump(h) ==
    LET me == handlers[h]
    IN  /\ me.pc = "dump"
        /\ IF me.fd = "tmp"
           THEN /\ tmp' \in Written(tmp, Record(me.snap))
                /\ file' = file
           ELSE IF me.fd = "file"
           THEN /\ file' \in Written(file, Record(me.snap))
                /\ tmp' = tmp
           ELSE UNCHANGED <<file, tmp>>
        /\ handlers' = [handlers EXCEPT ![h].pc = "replace", ![h].fd = "none"]
        /\ UNCHANGED <<now, state, update_callbacks, persistence_path, _settings, _callbacks, settings_file, sop, throwing, disk_ok,
                       delivered, op, mark, ledger, response>>

\* temp_path.replace(self.persistence_path): the file at temp_path, which
\* another handler may have emptied and still be writing, becomes the file
\* at persistence_path.  With temp_path gone the FileNotFoundError is caught
\* by save_state's except clause.
Replace(h) ==
    /\ handlers[h].pc = "replace"
    /\ file' = IF tmp # <<>> THEN tmp ELSE file
    /\ tmp' = <<>>
    /\ handlers' = [g \in Callers |->
                      IF g = h THEN Idle
                      ELSE IF tmp = <<>> THEN handlers[g]
                      ELSE IF handlers[g].fd = "tmp" THEN [handlers[g] EXCEPT !.fd = "file"]
                      ELSE IF handlers[g].fd = "file" THEN [handlers[g] EXCEPT !.fd = "gone"]
                      ELSE handlers[g]]
    /\ UNCHANGED <<now, state, update_callbacks, persistence_path, _settings, _callbacks, settings_file, sop, throwing, disk_ok,
                   delivered, op, mark, ledger, response>>

\* The next statement of handler h.
Step(h) ==
    \/ \E call \in HandlerCalls : Begin(h, call)
    \/ ReadClock(h)
    \/ AddElapsed(h)
    \/ Stamp(h)
    \/ Assign(h)
    \/ Callbacks(h)
    \/ OpenTemp(h)
    \/ Dump(h)
    \/ Replace(h)

\* Handlers on threads of their own: any handler may take the next step.
NextThreads ==
    \/ Tick
    \/ \E h \in Callers : Step(h)

SpecThreads == InitHandlers /\ [][NextThreads]_vars

\* Handlers as the server runs them: coroutines of one event loop.  The
\* time branch of handle_message awaits nothing and the engine's methods,
\* the observers and the file operations are synchronous, so a handler that
\* has entered an engine method keeps the loop until the method returns.
HasLoop(h) == \A g \in Callers \ {h} : handlers[g].pc = "idle"

StepOnLoop(h) == HasLoop(h) /\ Step(h)

NextLoop ==
    \/ Tick
    \/ \E h \in Callers : StepOnLoop(h)

SpecLoop == InitHandlers /\ [][NextLoop]_vars

\* ------------------------------------------------ re-entrant observers
\* Observers whose callback calls resume() when it is handed a pause event.
Resuming == {1}

\* resume() called from inside a callback, on the engine in state cur.
Resumed(cur, t) ==
    LET s1 == _update_time(cur, t)
    IN  [s1 EXCEPT !.time_dilation = s1.previous_dilation, !.is_paused = FALSE]

\* _notify_change's loop for a pause event from callback k on, with the
\* engine in state cur: the callback gets the event; a resuming one, if it
\* finds the clock paused, calls resume(), whose own _notify_change hands
\* its resume event to every callback before the outer loop goes on.
RECURSIVE FanOut(_, _, _, _)
FanOut(k, cur, event_state, t) ==
    IF k > Len(update_callbacks) THEN [events |-> <<>>, state |-> cur]
    ELSE LET cb == update_callbacks[k]
             reacts == cb \in Resuming /\ cur.is_paused
             after == IF reacts THEN Resumed(cur, t) ELSE cur
             nested == IF reacts
                       THEN Events(update_callbacks, "resume", _update_time(after, t), <<>>)
                       ELSE <<>>
             rest == FanOut(k + 1, after, event_state, t)
         IN  [events |-> <<Invocation(cb, "pause", event_state, <<>>)>>
                            \o nested \o rest.events,
              state |-> rest.state]

\* pause() on an engine whose observers may call back into it.  The saves
\* (resume()'s inside the loop, pause()'s after it) each write the state
\* they find; the last one stands.
pause_reentered ==
    IF ~state.is_paused
    THEN LET s1 == _update_time(state, now)
             s2 == [s1 EXCEPT !.previous_dilation = s1.time_dilation,
                              !.time_dilation = 0,
                              !.is_paused = TRUE]
             out == FanOut(1, s2, _update_time(s2, now), now)
         IN  /\ delivered' = out.events
             /\ state' = out.state
             /\ IF persistence_path
                THEN /\ file' = <<Record(out.state)>>
                     /\ tmp' = <<>>
                ELSE UNCHANGED <<file, tmp>>
             /\ op' = Call("pause", 0, NoTarget, "ok", NoTarget,
                           Instant(s1.game_time), TRUE)
             /\ mark' = NoMark
             /\ UNCHANGED <<now, update_callbacks, persistence_path, _settings, _callbacks, settings_file, sop, throwing, disk_ok,
                            handlers, ledger, response>>
    ELSE /\ delivered' = <<>>
         /\ UNCHANGED <<now, state, update_callbacks, persistence_path, _settings, _callbacks, settings_file, sop, throwing, disk_ok,
                        handlers, ledger, response, file, tmp, mark>>
         /\ op' = Call("pause", 0, NoTarget, "ok", NoTarget,
                       Instant(state.game_time), FALSE)

InitReentrant ==
    /\ now = 0
    /\ state = TimeState(DEFAULT_GAME_TIME, DEFAULT_DILATION, FALSE, 0, DEFAULT_DILATION)
    /\ update_callbacks = [i \in 1..MaxObservers |-> i]
    /\ persistence_path \in BOOLEAN
    /\ throwing = {}
    /\ disk_ok = TRUE
    /\ file = <<>>
    /\ tmp = <<>>
    /\ delivered = <<>>
    /\ op = [name |-> "subscribe", arg |-> 0, target |-> NoTarget,
             outcome |-> "ok", ret |-> NoTarget, elapsed |-> 0,
             credited |-> 0, delta |-> 0, applied |-> FALSE,
             old_dilation |-> DEFAULT_DILATION, old_paused |-> FALSE,
             old_previous |-> DEFAULT_DILATION]
    /\ mark = NoMark
    /\ handlers = NoHandlers
    /\ ledger = NoLedger
    /\ response = NoResponse
    /\ _settings = DefaultSettings
    /\ _callbacks = <<>>
    /\ settings_file = <<>>
    /\ sop = NoSettingsCall

NextReentrant ==
    \/ Tick
    \/ pause_reentered
    \/ \E d \in DilationsObs, l1, l2 \in LagChoices : Direct(set_time_dilation(d, l1, l2))
    \/ \E l1, l2 \in LagChoices : Direct(resume(l1, l2))
    \/ \E d \in DurationsObs, l1, l2 \in LagChoices : Direct(advance(d, l1, l2))

SpecReentrant == InitReentrant /\ [][NextReentrant]_vars

\* ------------------------------------------------------ SettingsService
\* The engine, its files and the facade's response: what no SettingsService
\* method touches.
engine == <<now, state, update_callbacks, persistence_path, throwing, disk_ok, file, tmp,
            delivered, op, mark, handlers, ledger, response>>

\* self._defaults: the keys with a SettingDefinition.
Registered == DOMAIN DefaultSettings

\* The validators of _register_default_settings: lambda v: v in [...]
Allowed(key) ==
    IF key = "clock.mode" THEN {Text("off"), Text("analog"), Text("digital")}
    ELSE {Text("top-left"), Text("top-right"), Text("bottom-left"), Text("bottom-right")}

\* The test set() and set_many() make before storing: a key with a
\* definition is validated, any other key is accepted.
Validates(key, value) == key \in Registered => value \in Allowed(key)

\* self._settings.get(key): None for a key that is not stored.
SettingsGet(settings, key) == IF key \in DOMAIN settings THEN settings[key] ELSE None

\* self._settings[key] = value
Store(settings, key, value) ==
    [k \in DOMAIN settings \cup {key} |-> IF k = key THEN value ELSE settings[k]]

\* The calls _notify_change(key, value) makes: every subscriber in
\* subscription order, each in a try block of its own.
RECURSIVE _notify_change(_, _, _)
_notify_change(callbacks, key, value) ==
    IF callbacks = <<>> THEN <<>>
    ELSE <<[to |-> Head(callbacks).id, key |-> key, value |-> value,
            raised |-> Head(callbacks).raises]>>
         \o _notify_change(Tail(callbacks), key, value)

\* What save() leaves on disk (a path is configured; its write errors,
\* which it swallows, are not modelled).
save(settings) == <<settings>>

settings_subscribe(raises) ==
    /\ Len(_callbacks) < MaxSubscribers
    /\ _callbacks' = Append(_callbacks, [id |-> Len(_callbacks) + 1, raises |-> raises])
    /\ sop' = [NoSettingsCall EXCEPT !.name = "subscribe"]
    /\ UNCHANGED <<_settings, settings_file>>
    /\ UNCHANGED engine

set(key, value) ==
    IF ~Validates(key, value)
    THEN /\ sop' = [name |-> "set", entries |-> <<<<key, value>>>>,
                    outcome |-> "ValueError", notified |-> <<>>, saved |-> FALSE]
         /\ UNCHANGED <<_settings, _callbacks, settings_file>>
         /\ UNCHANGED engine
    ELSE LET old_value == SettingsGet(_settings, key)
         IN  /\ _settings' = Store(_settings, key, value)
             /\ sop' = [name |-> "set", entries |-> <<<<key, value>>>>,
                        outcome |-> "ok",
                        notified |-> IF old_value # value
                                     THEN _notify_change(_callbacks, key, value)
                                     ELSE <<>>,
                        saved |-> old_value # value]
             /\ settings_file' = IF old_value # value THEN save(_settings')
                                 ELSE settings_file
             /\ UNCHANGED _callbacks
             /\ UNCHANGED engine

\* set_many's second loop: the entries applied in order, collecting the
\* keys whose new value differs from what get() returned before.
RECURSIVE Applied(_, _)
Applied(settings, entries) ==
    IF entries = <<>> THEN [settings |-> settings, changed_keys |-> <<>>]
    ELSE LET key == Head(entries)[1]
             value == Head(entries)[2]
             rest == Applied(Store(settings, key, value), Tail(entries))
         IN  [settings |-> rest.settings,
              changed_keys |-> (IF SettingsGet(settings, key) # value
                                THEN <<key>> ELSE <<>>) \o rest.changed_keys]

\* set_many's third loop: _notify_change(key, self._settings[key]) for
\* each changed key.
RECURSIVE NotifyEach(_, _, _)
NotifyEach(callbacks, settings, keys) ==
    IF keys = <<>> THEN <<>>
    ELSE _notify_change(callbacks, Head(keys), settings[Head(keys)])
         \o NotifyEach(callbacks, settings, Tail(keys))

\* Variant: each entry is validated and stored in turn.
RECURSIVE AppliedWhileValid(_, _)
AppliedWhileValid(settings, entries) ==
    IF entries = <<>> \/ ~Validates(Head(entries)[1], Head(entries)[2]) THEN settings
    ELSE AppliedWhileValid(Store(settings, Head(entries)[1], Head(entries)[2]),
                           Tail(entries))

set_many_entry_by_entry(entries) ==
    IF \E i \in DOMAIN entries : ~Validates(entries[i][1], entries[i][2])
    THEN /\ _settings' = AppliedWhileValid(_settings, entries)
         /\ sop' = [name |-> "set_many", entries |-> entries,
                    outcome |-> "ValueError", notified |-> <<>>, saved |-> FALSE]
         /\ UNCHANGED <<_callbacks, settings_file>>
         /\ UNCHANGED engine
    ELSE LET out == Applied(_settings, entries)
         IN  /\ _settings' = out.settings
             /\ sop' = [name |-> "set_many", entries |-> entries, outcome |-> "ok",
                        notified |-> NotifyEach(_callbacks, out.settings, out.changed_keys),
                        saved |-> out.changed_keys # <<>>]
             /\ settings_file' = IF out.changed_keys # <<>> THEN save(out.settings)
                                 ELSE settings_file
             /\ UNCHANGED _callbacks
             /\ UNCHANGED engine

\* entries: the items of the dict in its order, one per key.
set_many(entries) ==
    IF \E i \in DOMAIN entries : ~Validates(entries[i][1], entries[i][2])
    THEN /\ sop' = [name |-> "set_many", entries |-> entries,
                    outcome |-> "ValueError", notified |-> <<>>, saved |-> FALSE]
         /\ UNCHANGED <<_settings, _callbacks, settings_file>>
         /\ UNCHANGED engine
    ELSE LET out == Applied(_settings, entries)
         IN  /\ _settings' = out.settings
             /\ sop' = [name |-> "set_many", entries |-> entries, outcome |-> "ok",
                        notified |-> NotifyEach(_callbacks, out.settings, out.changed_keys),
                        saved |-> out.changed_keys # <<>>]
             /\ settings_file' = IF out.changed_keys # <<>> THEN save(out.settings)
                                 ELSE settings_file
             /\ UNCHANGED _callbacks
             /\ UNCHANGED engine

\* The keys and values callers pass: the registered keys and one that has
\* no definition; accepted and rejected values, and the None a request
\* without a value hands to set().
SettingKeys == Registered \cup {"custom.note"}

SettingValues == {Text("analog"), Text("digital"), Text("top-left"), None}

Entries == SettingKeys \X SettingValues

\* The dicts of at most two entries, in each order.
EntryLists ==
    {<<>>} \cup {<<e>> : e \in Entries}
           \cup {p \in Entries \X Entries : p[1][1] # p[2][1]}

NextSettings ==
    \/ \E raises \in BOOLEAN : settings_subscribe(raises)
    \/ \E key \in SettingKeys, value \in SettingValues : set(key, value)
    \/ \E entries \in EntryLists : set_many(entries)

SpecSettings == Init /\ [][NextSettings]_vars

\* ------------------------------------------- records that do not load
\* Documents load_state cannot take whole: not JSON at all (or a file that
\* cannot be opened), a game_time text fromisoformat rejects, and documents
\* with the leading one or two keys only.
CorruptRecords ==
    {PartialDocument,
     [game_time |-> MalformedText, time_dilation |-> MaxDil, is_paused |-> FALSE],
     [game_time |-> isoformat(DateTime(MaxTime, UTC))],
     [game_time |-> isoformat(DateTime(MaxTime, UTC)), time_dilation |-> MaxDil]}

\* The file at persistence_path is damaged from outside the engine.
CorruptWrite ==
    /\ persistence_path
    /\ \E r \in CorruptRecords : file' = <<r>>
    /\ UNCHANGED <<now, state, update_callbacks, persistence_path, _settings, _callbacks, settings_file, sop, throwing, disk_ok, handlers, ledger, response, tmp,
                   delivered, op, mark>>

\* The file at persistence_path is deleted from outside the engine.
RemoveFile ==
    /\ persistence_path
    /\ file # <<>>
    /\ file' = <<>>
    /\ UNCHANGED <<now, state, update_callbacks, persistence_path, _settings, _callbacks, settings_file, sop, throwing, disk_ok, handlers, ledger, response, tmp,
                   delivered, op, mark>>

\* create_production_container returned: there is a server to take calls.
Started == ~(op.name = "restart" /\ op.outcome = "raised")

NextLoad ==
    \/ Tick
    \/ Started /\ get_current_time
    \/ Started /\ \E d \in DilationsDisk, l1, l2 \in LagChoices : Direct(set_time_dilation(d, l1, l2))
    \/ Started /\ \E l1, l2 \in LagChoices : Direct(pause(l1, l2))
    \/ Started /\ \E l1, l2 \in LagChoices : Direct(resume(l1, l2))
    \/ Started /\ load_state
    \/ Restart
    \/ CorruptWrite
    \/ RemoveFile

SpecLoad == InitDisk /\ [][NextLoad]_vars

\* ---------------------------------------------------------------- claims
\* A step in which an engine method was called (Tick is not one).
CallStep == ~(UNCHANGED <<state, update_callbacks, delivered, op, mark>>)

SettlingMutators == {"set_time_dilation", "pause", "resume", "jump_to", "advance", "rewind"}

Reads == {"get_current_time", "get_time_state"}

\* C1: every mutating call that takes effect first credits the wall-clock
\* time elapsed since the last settlement at the dilation in force before
\* the call: what its first settlement adds to game_time is elapsed times
\* the old dilation, to the microsecond resolution of game_time, whatever
\* dilation the call goes on to set.
C1_SettlesAtOldDilation ==
    (op.name \in SettlingMutators /\ op.applied)
        => 2 * Abs(Den * op.credited - op.elapsed * op.old_dilation) <= Den

\* C1 witness: set_time_dilation changed a non-zero dilation after time had
\* elapsed, and the credit differs from what the new dilation would give.
C1_Witness ==
    /\ op.name = "set_time_dilation" /\ op.applied
    /\ op.elapsed > 0 /\ op.old_dilation > 0 /\ op.arg # op.old_dilation
    /\ op.credited > 0
    /\ op.credited # GameElapsed(op.elapsed, op.arg)

\* C2 (as claimed): at a constant dilation d > 0 with no mutating call in
\* between, two get_current_time() results taken t ticks apart differ by
\* exactly t * d.
C2_ExactDilatedAdvance ==
    (op.name = "get_current_time" /\ mark.valid /\ state.time_dilation > 0)
        => Den * (Instant(op.ret) - mark.time)
             = (state.last_real_time - mark.at) * state.time_dilation

\* C2 (amended): the two results differ by t * d up to the rounding of each
\* settlement to whole microseconds: at most half a microsecond for every
\* settlement that credited an interval between the two calls, the second
\* call's own included.
C2_DilatedAdvanceWithinRounding ==
    (op.name = "get_current_time" /\ mark.valid /\ state.time_dilation > 0)
        => 2 * Abs(Den * (Instant(op.ret) - mark.time)
                   - (state.last_real_time - mark.at) * state.time_dilation)
             <= Den * mark.settles

\* C2 witness: a second reading after two crediting settlements whose
\* difference from the first is not t * d.
C2_Witness ==
    /\ op.name = "get_current_time" /\ mark.valid /\ state.time_dilation > 0
    /\ mark.settles >= 2
    /\ Den * (Instant(op.ret) - mark.time)
         # (state.last_real_time - mark.at) * state.time_dilation

\* C3: while the clock is paused no settlement credits anything, however
\* much wall-clock time has elapsed: a read returns the stored game_time
\* unchanged, and the first settlement of resume() (and of every other call
\* made while paused) adds nothing for the paused interval.
C3_PausedClockFrozen ==
    (op.old_paused /\ op.name \in (SettlingMutators \cup Reads \cup {"save_state"}))
        => /\ op.credited = 0
           /\ (op.name \in Reads \cup {"save_state", "pause"} => op.delta = 0)
           /\ (op.name \in Reads =>
                   Instant(op.ret) = Instant(state.game_time))

\* C3 witness: resume() took effect after wall-clock time elapsed while paused.
C3_Witness ==
    /\ op.name = "resume" /\ op.applied /\ op.elapsed > 0
    /\ state.time_dilation > 0 /\ ~state.is_paused

C5_DilationNonNegative == state.time_dilation >= 0

\* C6 (as claimed): is_paused implies a dilation of zero, after load_state too.
C6_PausedImpliesZeroDilation == state.is_paused => state.time_dilation = 0

\* C7 (as claimed): pause() followed by resume() leaves the dilation that
\* was active right before pause(), and is_paused false, from any state.
C7_PauseResumeRestores ==
    [][(CallStep /\ op.name = "pause" /\ op'.name = "resume")
          => (state'.time_dilation = op.old_dilation /\ ~state'.is_paused)]_vars

\* C7 (amended): the same, from any state in which the clock is not paused
\* when pause() is called.
C7_PauseResumeRestoresFromRunning ==
    [][(CallStep /\ op.name = "pause" /\ ~op.old_paused /\ op'.name = "resume")
          => (state'.time_dilation = op.old_dilation /\ ~state'.is_paused)]_vars

\* C7 witness: resume() restored a dilation that is neither zero nor the default.
C7_Witness ==
    /\ op.name = "resume" /\ op.applied /\ op.old_paused
    /\ state.time_dilation \notin {0, DEFAULT_DILATION}
    /\ ~state.is_paused

\* C8: for d >= 0, after set_dilation(d) the dilation is d, is_paused is
\* (d = 0), previous_dilation is d if d # 0 and unchanged if d = 0; and
\* resume() from a paused state sets the dilation to previous_dilation (so
\* set_dilation(d > 0); set_dilation(0); resume() ends with dilation d).
C8_SetDilationPostcondition ==
    /\ (op.name = "set_time_dilation" /\ op.arg >= 0)
          => /\ op.outcome = "ok"
             /\ get_time_dilation = op.arg
             /\ is_paused = (op.arg = 0)
             /\ state.previous_dilation = IF op.arg # 0 THEN op.arg ELSE op.old_previous
    /\ (op.name = "resume" /\ op.applied)
          => get_time_dilation = op.old_previous

\* C8 witness: set_dilation(0) kept a previous_dilation that is not the default.
C8_Witness ==
    /\ op.name = "set_time_dilation" /\ op.arg = 0 /\ op.old_dilation > 0
    /\ state.is_paused
    /\ state.previous_dilation = op.old_dilation
    /\ state.previous_dilation # DEFAULT_DILATION

\* C9: set_dilation(d) with d < 0 raises ValueError and changes nothing:
\* not one field of the state (last_real_time included), no event to any
\* observer, no write of the persisted record.
C9_NegativeDilationRejected ==
    [][(CallStep /\ op'.name = "set_time_dilation" /\ op'.arg < 0)
          => /\ op'.outcome = "ValueError"
             /\ state' = state
             /\ file' = file
             /\ delivered' = <<>>
             /\ now' = now]_vars

\* C9 witness: a negative dilation was rejected while there was elapsed
\* time to settle, an observer to notify and a path to save to.
C9_Witness ==
    /\ op.name = "set_time_dilation" /\ op.arg < 0 /\ op.outcome = "ValueError"
    /\ now > state.last_real_time
    /\ update_callbacks # <<>>
    /\ persistence_path

\* C10 (as claimed): get_current_time() right after jump_to(T) returns
\* exactly the instant T.
C10_JumpThenReadReturnsTarget ==
    [][(CallStep /\ op.name = "jump_to" /\ op'.name = "get_current_time")
          => Instant(op'.ret) = Instant(op.target)]_vars

\* By how much a call moved the instant of game_time past the value its
\* first settlement produced.
MovedPastSettled == Instant(state'.game_time) - Instant(_update_time(state, now).game_time)

\* No settlement after the call's first one can credit anything: the clock
\* is paused, or no wall-clock time passes inside the call.
NoDriftInCall == state.is_paused \/ now' = now

\* C11 (as claimed): advance(D) leaves game_time at its settled value plus
\* exactly D and rewind(D) at its settled value minus exactly D, whatever the
\* dilation and the pause flag (on a running clock whose call takes time,
\* plus what the call's later settlements credit); two advances in a row
\* move it by the sum of their durations; and jump_to(T1) followed by
\* advance(D) leaves it at the instant T1 + D.
C11_ManualMovesExact ==
    [][CallStep =>
         /\ (op'.name = "advance") =>
               IF NoDriftInCall THEN MovedPastSettled = op'.arg
               ELSE MovedPastSettled >= op'.arg
         /\ (op'.name = "rewind") =>
               IF NoDriftInCall THEN MovedPastSettled = -op'.arg
               ELSE MovedPastSettled >= -op'.arg
         /\ (op.name = "advance" /\ op'.name = "advance") =>
               IF state.is_paused
               THEN op.delta + Instant(state'.game_time) - Instant(state.game_time)
                       = op.arg + op'.arg
               ELSE op.delta + Instant(state'.game_time) - Instant(state.game_time)
                       >= op.credited + op.arg + op'.arg
         /\ (op.name = "jump_to" /\ op'.name = "advance") =>
               IF state.is_paused
               THEN Instant(state'.game_time) = Instant(op.target) + op'.arg
               ELSE Instant(state'.game_time) >= Instant(op.target) + op'.arg]_vars

\* C12: advance(D) followed by rewind(D) leaves dilation, is_paused and
\* previous_dilation as they were before the advance, and game_time at its
\* pre-advance value plus only what settlements credited for the wall-clock
\* time that elapsed: nothing on a paused clock, and otherwise the two
\* calls' first settlements plus what the clock ran inside the two calls.
C12_AdvanceRewindRoundTrip ==
    [][(CallStep /\ op.name = "advance" /\ op'.name = "rewind" /\ op'.arg = op.arg) =>
         LET net == op.delta + Instant(state'.game_time) - Instant(state.game_time)
             inside == net - op.credited
                           - GameElapsed(now - state.last_real_time, state.time_dilation)
         IN  /\ state'.time_dilation = op.old_dilation
             /\ state'.is_paused = op.old_paused
             /\ state'.previous_dilation = op.old_previous
             /\ op.old_paused => net = 0
             /\ inside >= 0
             /\ Den * inside <= (2 * MaxLag + now' - now) * state.time_dilation + 2 * Den
       ]_vars

\* C12 witness: rewind(D), D > 0, brought a paused clock back to the default
\* start with the fields of a clock paused from a non-default dilation.
C12_Witness ==
    /\ op.name = "rewind" /\ op.applied /\ op.arg > 0 /\ op.delta = -op.arg
    /\ op.old_paused /\ state.is_paused
    /\ state.previous_dilation = MaxDil
    /\ state.game_time = DEFAULT_GAME_TIME

\* C13 (as claimed): whatever number reaches them, advance never leaves
\* game_time below its settled value and rewind never leaves it above.
C13_MovesKeepTheirDirection ==
    [][CallStep =>
         /\ (op'.name = "advance") => MovedPastSettled >= 0
         /\ (op'.name = "rewind" /\ NoDriftInCall) => MovedPastSettled <= 0]_vars

\* C14: pause() on a paused clock and resume() on a running clock change
\* nothing: game_time, dilation, is_paused and previous_dilation stay as
\* they were and no observer receives an event.
C14_RedundantPauseResumeNoOp ==
    ((op.name = "pause" /\ op.old_paused) \/ (op.name = "resume" /\ ~op.old_paused))
        => /\ op.delta = 0
           /\ state.time_dilation = op.old_dilation
           /\ state.is_paused = op.old_paused
           /\ state.previous_dilation = op.old_previous
           /\ delivered = <<>>

\* C14 witness: pause() was called on a paused clock with an observer
\* subscribed and wall-clock time elapsed since the last settlement.
C14_Witness ==
    /\ op.name = "pause" /\ op.old_paused /\ ~op.applied
    /\ update_callbacks # <<>>
    /\ now > state.last_real_time

\* The event kind the contract names for each mutating call.
EventKind ==
    [set_time_dilation |-> "dilation_change", pause |-> "pause", resume |-> "resume",
     jump_to |-> "manual_jump", advance |-> "manual_advance",
     rewind |-> "manual_rewind", reset_to_default |-> "reset"]

\* The latest call was a mutating call that took effect.
Mutated(o) == o.applied /\ o.name \in DOMAIN EventKind

\* The fields the latest call was to set are set.
MutationStands(o, s) ==
    /\ (o.name = "set_time_dilation") =>
          s.time_dilation = o.arg /\ s.is_paused = (o.arg = 0)
    /\ (o.name = "pause") =>
          s.is_paused /\ s.time_dilation = 0 /\ s.previous_dilation = o.old_dilation
    /\ (o.name = "resume") =>
          ~s.is_paused /\ s.time_dilation = o.old_previous
    /\ (o.name = "reset_to_default") =>
          ~s.is_paused /\ s.time_dilation = DEFAULT_DILATION
    /\ (o.name = "advance") => o.delta >= o.credited + o.arg
    /\ (o.name = "jump_to") =>
          Instant(s.game_time) >= Instant(ReplaceTzUtc(o.target))

C16_ThrowingObserverIsolated ==
    (Mutated(op) /\ \E i \in DOMAIN delivered : delivered[i].raised) =>
        /\ \A i \in DOMAIN update_callbacks :
              \E j \in DOMAIN delivered :
                  /\ delivered[j].to = update_callbacks[i]
                  /\ delivered[j].type = EventKind[op.name]
        /\ op.outcome = "ok"
        /\ MutationStands(op, state)
        /\ file = <<Record(state)>>

\* C16 witness: the first observer raised during a pause event, the second
\* received it, and the paused state was written.
C16_Witness ==
    /\ op.name = "pause" /\ op.applied
    /\ Len(delivered) = 2
    /\ delivered[1].raised /\ ~delivered[2].raised
    /\ state.is_paused
    /\ file = <<Record(state)>>

\* C17: a mutating call mutates, then notifies, then persists: the events
\* show the mutated fields, the record is of a settlement no earlier than
\* the one the events show, and, the write having succeeded, the record's
\* time_dilation, is_paused and previous_dilation are those in memory when
\* the call returns.
C17_MutateNotifyPersist ==
    [][(CallStep /\ Mutated(op') /\ persistence_path /\ disk_ok) =>
         /\ file' # <<>>
         /\ file'[1].time_dilation = state'.time_dilation
         /\ file'[1].is_paused = state'.is_paused
         /\ file'[1].previous_dilation = state'.previous_dilation
         /\ \A i \in DOMAIN delivered' :
               /\ delivered'[i].state.time_dilation = state'.time_dilation
               /\ delivered'[i].state.is_paused = state'.is_paused
               /\ Instant(fromisoformat(delivered'[i].state.current_time))
                     <= Instant(fromisoformat(file'[1].game_time))
       ]_vars

\* C17 witness: the record written by set_dilation is of a later settlement
\* than the event its observer received.
C17_Witness ==
    /\ op.name = "set_time_dilation" /\ op.applied
    /\ delivered # <<>>
    /\ file = <<Record(state)>>
    /\ Instant(fromisoformat(delivered[1].state.current_time)) < Instant(state.game_time)

\* C18: when the write of the record fails, the mutating call still returns
\* normally, the mutated fields stay in memory, the observers have been
\* notified, and the file at the persistence path is as it was.
C18_WriteFailureSwallowed ==
    [][(CallStep /\ Mutated(op') /\ persistence_path /\ ~disk_ok) =>
         /\ op'.outcome = "ok"
         /\ MutationStands(op', state')
         /\ Len(delivered') = Len(update_callbacks)
         /\ \A i \in DOMAIN delivered' : delivered'[i].type = EventKind[op'.name]
         /\ file' = file
       ]_vars

\* C18 witness: pause() took effect and reached its observer while the disk
\* was failing; the file does not hold the paused state.
C18_Witness ==
    /\ ~disk_ok
    /\ op.name = "pause" /\ op.applied /\ state.is_paused
    /\ delivered # <<>>
    /\ file # <<Record(state)>>

\* A complete document of the shape save_state writes.
CompleteRecord(data) ==
    DOMAIN data = {"game_time", "time_dilation", "is_paused", "previous_dilation"}

\* C19: wherever save_state stops, a kill between two of its file
\* operations included, the file at the persistence path is absent or a
\* complete record, and it only ever changes to the complete record of the
\* state being saved; a partial document is only ever at the temporary path.
C19_AtomicReplace ==
    /\ [](file = <<>> \/ CompleteRecord(file[1]))
    /\ [][file' = file
           \/ (/\ op'.name \in DOMAIN EventKind \cup {"save_state", "crash"}
               /\ file' = <<Record(state')>>)]_vars

\* C19 witness: the process was killed with the temporary file partly
\* written, and the record saved before is intact.
C19_Witness ==
    /\ op.name = "crash"
    /\ tmp = <<PartialDocument>>
    /\ file # <<>> /\ CompleteRecord(file[1])
    /\ file[1].time_dilation = MaxDil

\* C20: an engine started from, or loading, the record an engine saved from
\* its state has that state's game_time, dilation, is_paused and
\* previous_dilation; and resume() on a state reloaded as paused sets the
\* dilation saved as previous_dilation.
C20_SaveLoadRoundTrip ==
    [][CallStep =>
         /\ (/\ op'.name \in {"restart", "load_state"}
             /\ persistence_path
             /\ file = <<Record(state)>>)
               => /\ state'.game_time = state.game_time
                  /\ state'.time_dilation = state.time_dilation
                  /\ state'.is_paused = state.is_paused
                  /\ state'.previous_dilation = state.previous_dilation
         /\ (/\ op.name \in {"restart", "load_state"} /\ op.applied
             /\ state.is_paused
             /\ op'.name = "resume")
               => /\ state'.time_dilation = state.previous_dilation
                  /\ ~state'.is_paused
       ]_vars

\* C20 witness: a restart reloaded a clock paused from a non-default
\* dilation, away from the default start time.
C20_Witness ==
    /\ op.name = "restart" /\ op.applied
    /\ persistence_path /\ file = <<Record(state)>>
    /\ state.is_paused /\ state.previous_dilation = MaxDil
    /\ state.game_time # DEFAULT_GAME_TIME

\* C27: reset_to_default() leaves the dilation and previous_dilation at
\* 1.0, is_paused false and game_time at the default start (plus only what
\* the clock, running again, credits inside the call), hands every observer
\* one reset event showing those fields, and writes the record of the state
\* it returns with.
C27_ResetRestoresDefaults ==
    [][(CallStep /\ op'.name = "reset_to_default") =>
         /\ state'.time_dilation = DEFAULT_DILATION
         /\ ~state'.is_paused
         /\ state'.previous_dilation = DEFAULT_DILATION
         /\ (now' = now) => state'.game_time = DEFAULT_GAME_TIME
         /\ Instant(state'.game_time) >= Instant(DEFAULT_GAME_TIME)
         /\ Den * (Instant(state'.game_time) - Instant(DEFAULT_GAME_TIME))
               <= (now' - now) * DEFAULT_DILATION + Den
         /\ Len(delivered') = Len(update_callbacks)
         /\ \A i \in DOMAIN delivered' :
               /\ delivered'[i].type = "reset"
               /\ delivered'[i].state.time_dilation = DEFAULT_DILATION
               /\ ~delivered'[i].state.is_paused
         /\ persistence_path => file' = <<Record(state')>>
       ]_vars

\* C27 witness: a reset of a paused clock that was away from the default
\* start, with an observer notified and the record written.
C27_Witness ==
    /\ op.name = "reset_to_default" /\ op.old_paused /\ op.delta # 0
    /\ state.game_time = DEFAULT_GAME_TIME
    /\ delivered # <<>>
    /\ file = <<Record(state)>>

\* C28 (as claimed): set_dilation(0) on a clock that is not paused leaves
\* is_paused false; only pause() sets it.
C28_SetDilationZeroDoesNotPause ==
    (op.name = "set_time_dilation" /\ op.outcome = "ok" /\ op.arg = 0 /\ ~op.old_paused)
        => ~state.is_paused

\* C28 (amended): is_paused is true exactly when the dilation is 0, whether
\* the 0 comes from pause() or from set_dilation(0).
C28_PausedIffZeroDilation ==
    state.is_paused <=> (state.time_dilation = 0)

\* C28 witness: set_dilation(0) paused a running clock.
C28_Witness ==
    /\ op.name = "set_time_dilation" /\ op.arg = 0 /\ ~op.old_paused
    /\ state.is_paused /\ state.time_dilation = 0

\* C29 (as claimed): at a constant dilation with no mutating call, what has
\* been credited since a reading is what one settlement of the whole
\* interval credits, however many reads have settled parts of it.
C29_SplitSettlementSameCredit ==
    (op.name \in Reads /\ mark.valid /\ state.time_dilation > 0)
        => Instant(state.game_time) - mark.time
             = GameElapsed(state.last_real_time - mark.at, state.time_dilation)

\* C30: every event of a mutating call shows the dilation and pause flag
\* the call produced (a pause event: paused, dilation 0; a resume event: not
\* paused, the restored dilation), a dilation_change event details the old
\* and the new dilation, and all observers get the same resulting state.
C30_EventCarriesResultingState ==
    Mutated(op) =>
        \A i \in DOMAIN delivered :
            /\ delivered[i].state.time_dilation = state.time_dilation
            /\ delivered[i].state.is_paused = state.is_paused
            /\ (delivered[i].type = "pause") =>
                  delivered[i].state.is_paused /\ delivered[i].state.time_dilation = 0
            /\ (delivered[i].type = "resume") =>
                  /\ ~delivered[i].state.is_paused
                  /\ delivered[i].state.time_dilation = op.old_previous
            /\ (delivered[i].type = "dilation_change") =>
                  /\ delivered[i].details.old_dilation = op.old_dilation
                  /\ delivered[i].details.new_dilation = op.arg
                  /\ delivered[i].state.time_dilation = op.arg
            /\ \A j \in DOMAIN delivered : delivered[j].state = delivered[i].state

\* C30 witness: two observers received the same state for a change of
\* dilation from one non-zero value to another.
C30_Witness ==
    /\ op.name = "set_time_dilation" /\ op.applied
    /\ Len(delivered) = 2
    /\ delivered[1].details.old_dilation = DEFAULT_DILATION
    /\ delivered[1].details.new_dilation = MaxDil
    /\ delivered[2].state.time_dilation = MaxDil
    /\ delivered[1].state = delivered[2].state

\* C21 (as claimed): a process start that finds the record missing,
\* unreadable or not loadable succeeds and leaves exactly the default
\* state: default start time, dilation 1.0, not paused, previous_dilation
\* 1.0.
C21_BadRecordStartsWithDefaults ==
    [][(CallStep /\ op'.name = "restart" /\ (file = <<>> \/ ~Parses(file[1]))) =>
         /\ op'.outcome = "ok"
         /\ state' = Defaults(now)
       ]_vars

\* C24 (as claimed): no engine call fails except set_dilation with a
\* negative argument, whatever instant the clock was last moved to.
C24_OnlyNegativeDilationFails ==
    (op.outcome # "ok") => (op.name = "set_time_dilation" /\ op.arg < 0)

\* The requests the facade must refuse: no action or an unknown one, a
\* required field missing, a negative or non-numeric dilation, a malformed
\* timestamp.
Refused(data) ==
    \/ data.action \notin TimeActions
    \/ /\ data.action \in {"set_dilation", "advance", "rewind"}
       /\ data.value.kind = "absent"
    \/ /\ data.action = "set_dilation"
       /\ (data.value.kind = "text" \/ data.value.n < 0)
    \/ /\ data.action = "jump_to"
       /\ (data.target_time.kind = "absent" \/ data.target_time.text = MalformedText)

Overlap(a, b) ==
    LET from == IF a[1] > b[1] THEN a[1] ELSE b[1]
        to == IF a[2] < b[2] THEN a[2] ELSE b[2]
    IN  from < to

\* C22 (as claimed): with handlers calling concurrently, settlements are
\* atomic with respect to one another: no stretch of wall-clock time is
\* credited to game_time twice.
C22_NoIntervalCreditedTwice ==
    \A a, b \in ledger : (a # b) => ~Overlap(a, b)

\* C23 (as claimed): while an observer callback or a write of the record of
\* one handler's mutating call is in progress, another handler's
\* get_time_state() can run.
C23_ReadsRunDuringFanOutAndWrite ==
    \A h \in Callers :
        (handlers[h].pc \in {"callbacks", "open", "dump", "replace"}) =>
            \E g \in Callers \ {h} : ENABLED StepOnLoop(g)


ManualMoves == {"jump_to", "advance", "rewind"}

\* C31 (as claimed): jump_to(T) with an offset-aware T whose offset is not
\* zero leaves game_time in UTC at the same absolute instant as T (when the
\* call credits nothing after the jump: the clock is paused or the call
\* takes no time).
C31_JumpKeepsInstantOfAwareTarget ==
    [][(CallStep /\ op'.name = "jump_to" /\ op'.target.off # UTC /\ NoDriftInCall)
          => /\ state'.game_time.off = UTC
             /\ Instant(state'.game_time) = Instant(op'.target)]_vars

\* C32: previous_dilation is positive in every state reached from the
\* defaults through engine operations, and a resume() that finds the clock
\* paused leaves a positive dilation and is_paused false.
C32_ResumedClockRuns ==
    /\ state.previous_dilation > 0
    /\ (op.name = "resume" /\ op.old_paused)
          => (op.applied /\ state.time_dilation > 0 /\ ~state.is_paused)

\* C32 witness: resume() found a clock that set_time_dilation(0) had
\* paused and restored a dilation that is not the default.
C32_Witness ==
    /\ op.name = "resume" /\ op.old_paused /\ op.old_dilation = 0
    /\ state.time_dilation = MaxDil /\ ~state.is_paused
    /\ state.previous_dilation = MaxDil

\* C33: a load (load_state(), or a process start that finds a record) sets
\* last_real_time to the moment of loading and game_time to the persisted
\* game_time, whatever the persisted dilation and however long ago the
\* record was written; the next read returns the persisted game_time plus
\* only what the clock credits for the time since the load.
C33_DowntimeNotCredited ==
    [][CallStep =>
         /\ (/\ op'.name \in {"restart", "load_state"} /\ op'.outcome = "ok"
             /\ persistence_path /\ file # <<>>)
               => /\ state'.game_time = fromisoformat(file[1].game_time)
                  /\ state'.last_real_time = now
         /\ (/\ op.name \in {"restart", "load_state"} /\ op.outcome = "ok"
             /\ persistence_path /\ file # <<>>
             /\ op'.name = "get_current_time")
               => Instant(op'.ret) =
                     Instant(fromisoformat(file[1].game_time))
                       + (IF state.is_paused THEN 0
                          ELSE GameElapsed(now - state.last_real_time, state.time_dilation))
       ]_vars

\* C33 witness: a process start loaded a record of a fast running clock
\* written some wall-clock time before, and credited none of that time.
C33_Witness ==
    /\ op.name = "restart" /\ op.outcome = "ok"
    /\ persistence_path /\ file # <<>>
    /\ op.elapsed > 0
    /\ ~state.is_paused /\ state.time_dilation = MaxDil
    /\ state.game_time = fromisoformat(file[1].game_time)
    /\ state.last_real_time = now

\* C35: get_current_time() and get_time_state() change neither the
\* dilation nor is_paused nor previous_dilation, call no observer, leave
\* the observer list alone and write nothing; get_time_dilation() and
\* is_paused() are values of the state and change no field.
C35_ReadsOnlySettle ==
    [][(CallStep /\ op'.name \in Reads)
          => /\ state'.time_dilation = state.time_dilation
             /\ state'.is_paused = state.is_paused
             /\ state'.previous_dilation = state.previous_dilation
             /\ get_time_dilation' = get_time_dilation
             /\ is_paused' = is_paused
             /\ delivered' = <<>>
             /\ update_callbacks' = update_callbacks
             /\ file' = file
             /\ tmp' = tmp]_vars

\* C35 witness: get_time_state() settled elapsed time on an engine with
\* an observer and a path, and the record on disk still shows the time of
\* the last save.
C35_Witness ==
    /\ op.name = "get_time_state" /\ op.credited > 0
    /\ update_callbacks # <<>>
    /\ persistence_path /\ file # <<>>
    /\ file # <<Record(state)>>
    /\ delivered = <<>>

\* C36: jump_to, advance and rewind leave the dilation, is_paused and
\* previous_dilation as they found them, and the read that follows credits
\* the time since the move at that same dilation (nothing when paused).
C36_ManualMovesKeepRate ==
    [][CallStep =>
         /\ (op'.name \in ManualMoves)
               => /\ state'.time_dilation = state.time_dilation
                  /\ state'.is_paused = state.is_paused
                  /\ state'.previous_dilation = state.previous_dilation
         /\ (op.name \in ManualMoves /\ op'.name = "get_current_time")
               => Instant(op'.ret) - Instant(state.game_time) =
                     IF op.old_paused THEN 0
                     ELSE GameElapsed(now - state.last_real_time, op.old_dilation)
       ]_vars

\* C36 witness: a jump on a fast running clock, and then a read that
\* credited the time since the jump.
C36_Witness ==
    /\ op.name = "jump_to" /\ ~op.old_paused /\ op.old_dilation = MaxDil
    /\ state.time_dilation = MaxDil /\ ~state.is_paused
    /\ now > state.last_real_time

\* C37 (as claimed): with the saves of two concurrent mutating calls
\* interleaved, what is at the persistence path is always the complete
\* record of one state: never an emptied file, never a mix of two records.
C37_InstalledRecordComplete ==
    file = <<>> \/ CompleteRecord(file[1])

\* C34 (as claimed): with an observer that calls a mutating operation from
\* inside its callback, every observer is handed the events in the order in
\* which the mutations were applied.  Within one call a resume() can only
\* have been applied after the pause() whose event it answers, so no
\* observer is handed a resume event, whose state is running, and after it
\* the pause event, whose older state is paused.
C34_EventsInMutationOrder ==
    \A i, j \in DOMAIN delivered :
        (i < j /\ delivered[i].to = delivered[j].to)
            => ~(delivered[i].type = "resume" /\ delivered[j].type = "pause")

\* A step in which a SettingsService method was called.
SettingsStep == sop' # sop \/ _settings' # _settings \/ _callbacks' # _callbacks

\* What is stored under a key: <<value>>, or <<>> while the key is not stored.
Stored(settings, key) == IF key \in DOMAIN settings THEN <<settings[key]>> ELSE <<>>

\* C38: set_many with an entry its validator rejects raises ValueError and
\* leaves every setting, the valid entries of the same call included, as
\* it was: no subscriber is called and nothing is written.
C38_SetManyValidatesAllFirst ==
    [][(/\ SettingsStep
        /\ sop'.name = "set_many"
        /\ \E i \in DOMAIN sop'.entries :
              ~Validates(sop'.entries[i][1], sop'.entries[i][2]))
          => /\ sop'.outcome = "ValueError"
             /\ _settings' = _settings
             /\ sop'.notified = <<>>
             /\ ~sop'.saved
             /\ settings_file' = settings_file]_vars

\* C38 witness: set_many refused a dict whose first entry was valid and
\* new, with a subscriber listening, and that entry's key kept its value.
C38_Witness ==
    /\ sop.name = "set_many" /\ sop.outcome = "ValueError"
    /\ Len(sop.entries) = 2
    /\ Validates(sop.entries[1][1], sop.entries[1][2])
    /\ Stored(_settings, sop.entries[1][1]) # <<sop.entries[1][2]>>
    /\ _callbacks # <<>>
    /\ sop.notified = <<>>

\* C39 (as claimed): a set() that passes validation stores the value
\* whatever the subscribers do; it calls every subscriber exactly once, in
\* order, with (key, new value), when what is stored under the key changes,
\* and calls none when the value stored already is the new value.
C39_SetNotifiesOncePerChange ==
    [][(SettingsStep /\ sop'.name = "set" /\ sop'.outcome = "ok")
          => LET key == sop'.entries[1][1]
                 value == sop'.entries[1][2]
             IN  /\ Stored(_settings', key) = <<value>>
                 /\ IF Stored(_settings, key) # <<value>>
                    THEN /\ Len(sop'.notified) = Len(_callbacks)
                         /\ \A i \in DOMAIN _callbacks :
                               /\ sop'.notified[i].to = _callbacks[i].id
                               /\ sop'.notified[i].key = key
                               /\ sop'.notified[i].value = value
                    ELSE sop'.notified = <<>>]_vars

====
